---- MODULE Spec2Model ----
(***************************************************************************)
(* ES-CLI: the interactive session (main.py, ui.py MainWindow/QueryInput)  *)
(* and the results table (ui.py ResultsTable) as a state machine.          *)
(*                                                                         *)
(* Text (query buffer, field names, cell values) is a sequence of          *)
(* one-character strings, so that strip(), len(), slicing and padding are  *)
(* computed as Python computes them.                                       *)
(*                                                                         *)
(* Key events are delivered to the handler urwid routes them to: 'enter'   *)
(* and 'esc' to QueryInput.keypress, the scroll keys to                    *)
(* ResultsTable.keypress, 'n', 'p' and 'q' to handle_unhandled_input.      *)
(***************************************************************************)
EXTENDS Integers, Sequences, FiniteSets, TLC

VARIABLES
    query_text,     \* QueryInput.query_edit: the edit buffer
    esql_radio,     \* QueryInput.esql_radio state (TRUE: ESQL, FALSE: KQL)
    current_from,   \* MainWindow.current_from
    status_bar,     \* MainWindow.status_bar_text and the status_bar attribute map
    headers,        \* ResultsTable.headers
    rows,           \* ResultsTable._rows
    total_hits,     \* ResultsTable.total_hits
    hscroll_pos,    \* ResultsTable._hscroll_pos
    list_walker,    \* ResultsTable.list_walker: the row widgets on screen
    info_text,      \* ResultsTable.info_text, as its " | "-separated parts
    response,       \* what the Search Backend returned last
    sent,           \* the backend requests issued while handling the last key
    key,            \* the key event handled last
    running,        \* FALSE once the main loop has ended
    now,            \* the reading of datetime.utcnow()
    current_preset, \* TimeRangeSelector.current_preset
    resolved_range, \* the (start_time, end_time) resolved last, with the name asked
    buttons,        \* TimeRangeSelector.buttons: the label of each button
    search_in_progress, \* MainWindow._search_in_progress
    cluster         \* the condition of the Elasticsearch cluster

vars == <<query_text, esql_radio, current_from, status_bar, headers, rows,
          total_hits, hscroll_pos, list_walker, info_text, response, sent,
          key, running, now, current_preset, resolved_range, buttons,
          search_in_progress, cluster>>

tableVars == <<headers, rows, total_hits, hscroll_pos, list_walker, info_text>>

timeVars == <<now, current_preset, resolved_range, buttons>>

(***************************************************************************)
(* Bounds of the model and constants of the program.                       *)
(***************************************************************************)
MaxFields == 6          \* source fields of the widest hit of the session model
MaxTotal == 250         \* the largest hit count the backend reports
MaxHits == 2            \* hits per response in the table model
MaxReason == 102        \* characters of the reason texts around the status line limit
MaxCell == 98           \* characters of the longest cell of the table model

default_size == 100     \* Config.default_size
min_width == 15
max_width == 100
max_cols_per_screen == 6
from_ == 0              \* ResultsTable.from_, written only by __init__

(***************************************************************************)
(* Python built-ins.                                                       *)
(***************************************************************************)
Max(a, b) == IF a >= b THEN a ELSE b
Min(a, b) == IF a <= b THEN a ELSE b

Range(s) == {s[i] : i \in 1..Len(s)}

IsSpace(c) == c \in {" ", "\t", "\n"}

RECURSIVE LStrip(_)
LStrip(s) == IF s # <<>> /\ IsSpace(Head(s)) THEN LStrip(Tail(s)) ELSE s

RECURSIVE RStrip(_)
RStrip(s) ==
    IF s # <<>> /\ IsSpace(s[Len(s)]) THEN RStrip(SubSeq(s, 1, Len(s) - 1)) ELSE s

\* str.strip()
Strip(s) == RStrip(LStrip(s))

DigitChar(d) == <<"0", "1", "2", "3", "4", "5", "6", "7", "8", "9">>[d + 1]

RECURSIVE NatStr(_)
NatStr(n) == IF n < 10 THEN <<DigitChar(n)>> ELSE Append(NatStr(n \div 10), DigitChar(n % 10))

\* str(int)
IntStr(n) == IF n < 0 THEN <<"-">> \o NatStr(0 - n) ELSE NatStr(n)

\* A backend value is <<"str", text>>, <<"int", n>>, <<"bool", b>> or <<"null", 0>>.
StrVal(t) == <<"str", t>>
IntVal(n) == <<"int", n>>
BoolVal(b) == <<"bool", b>>
NullVal == <<"null", 0>>

\* str(value)
PyStr(v) ==
    CASE v[1] = "str" -> v[2]
      [] v[1] = "int" -> IntStr(v[2])
      [] v[1] = "bool" -> IF v[2] THEN <<"T", "r", "u", "e">> ELSE <<"F", "a", "l", "s", "e">>
      [] v[1] = "null" -> <<"N", "o", "n", "e">>

\* A dict is a sequence of <<key, value>> pairs in insertion order.
Keys(d) == [i \in 1..Len(d) |-> d[i][1]]

\* dict.get(k, default)
DictGet(d, k, default) ==
    IF \E i \in 1..Len(d) : d[i][1] = k
    THEN d[CHOOSE i \in 1..Len(d) : d[i][1] = k][2]
    ELSE default

\* list.insert(i, e), i counted from 0
ListInsert(s, i, e) ==
    LET at == Min(i, Len(s)) IN SubSeq(s, 1, at) \o <<e>> \o SubSeq(s, at + 1, Len(s))

\* the elements of s whose (1-based) position is not in drop, in order
RECURSIVE Without(_, _)
Without(s, drop) ==
    IF s = <<>> THEN <<>>
    ELSE LET init == Without(SubSeq(s, 1, Len(s) - 1), drop)
         IN IF Len(s) \in drop THEN init ELSE Append(init, s[Len(s)])

\* f"{s:<{n}}"
RECURSIVE LJust(_, _)
LJust(s, n) == IF Len(s) >= n THEN s ELSE LJust(Append(s, " "), n)

\* s[:n]
Prefix(s, n) == SubSeq(s, 1, Min(Max(n, 0), Len(s)))

S_id == <<"_", "i", "d">>
S_index == <<"_", "i", "n", "d", "e", "x">>
Ellipsis == <<".", ".", ".">>

(***************************************************************************)
(* ResultsTable: normalisation of a response into headers and rows.        *)
(***************************************************************************)

\* _display_kql_results: hits.total, a dict {value: N}, a scalar, or absent
TotalHitsOf(total) ==
    CASE total.shape = "dict" -> total.value
      [] total.shape = "scalar" -> total.value
      [] total.shape = "absent" -> 0

\* _display_kql_results: the header list, from the first hit
KqlHeaders(hits) ==
    LET first == Keys(hits[1].source)
        h1 == IF S_id \notin Range(first) THEN ListInsert(first, 0, S_id) ELSE first
    IN IF S_index \notin Range(h1) THEN ListInsert(h1, 1, S_index) ELSE h1

\* _display_kql_results: the row of one hit under the header list hdrs
KqlRow(hit, hdrs) ==
    <<PyStr(hit.id), PyStr(hit.index)>>
        \o [j \in 1..(Len(hdrs) - 2) |-> PyStr(DictGet(hit.source, hdrs[j + 2], StrVal(<<>>)))]

KqlRows(hits, hdrs) == [i \in 1..Len(hits) |-> KqlRow(hits[i], hdrs)]

\* _display_esql_results: one cell
EsqlCell(val) == IF val[1] = "null" THEN <<>> ELSE PyStr(val)

EsqlHeaders(columns) == [i \in 1..Len(columns) |-> columns[i]]

EsqlRows(values) ==
    [i \in 1..Len(values) |-> [j \in 1..Len(values[i]) |-> EsqlCell(values[i][j])]]

\* EmptyColIndices with cells of white space taken as filled
EmptyColIndicesUntrimmed(hdrs, rws) ==
    {c \in 1..Len(hdrs) :
        \A r \in 1..Len(rws) : c <= Len(rws[r]) => rws[r][c] = <<>>}

\* _filter_empty_columns: the columns whose every cell strips to nothing
EmptyColIndices(hdrs, rws) ==
    {c \in 1..Len(hdrs) :
        \A r \in 1..Len(rws) : c <= Len(rws[r]) => Strip(rws[r][c]) = <<>>}

\* FilterEmptyColumns with the rows left as they were
FilterHeadersOnly(hdrs, rws) ==
    IF hdrs = <<>> \/ rws = <<>> THEN [headers |-> hdrs, rows |-> rws]
    ELSE LET empty == EmptyColIndices(hdrs, rws)
         IN IF empty # {} /\ Cardinality(empty) < Len(hdrs)
            THEN [headers |-> Without(hdrs, empty), rows |-> rws]
            ELSE [headers |-> hdrs, rows |-> rws]

\* _filter_empty_columns: the table it leaves
FilterEmptyColumns(hdrs, rws) ==
    IF hdrs = <<>> \/ rws = <<>> THEN [headers |-> hdrs, rows |-> rws]
    ELSE LET empty == EmptyColIndices(hdrs, rws)
         IN IF empty # {} /\ Cardinality(empty) < Len(hdrs)
            THEN [headers |-> Without(hdrs, empty),
                  rows |-> [r \in 1..Len(rws) |-> Without(rws[r], empty)]]
            ELSE [headers |-> hdrs, rows |-> rws]

(***************************************************************************)
(* ResultsTable: rendering.                                                *)
(***************************************************************************)
SetMax(S) == CHOOSE m \in S : \A x \in S : x <= m

\* ColumnWidth taken from the header alone
ColumnWidthOfHeader(hdrs, rws, c) == Max(min_width, Min(Len(hdrs[c]) + 3, max_width))

\* ColumnWidth without the upper limit
ColumnWidthUnclamped(hdrs, rws, c) ==
    LET lens == {Len(hdrs[c])} \cup {Len(rws[r][c]) : r \in {q \in 1..Len(rws) : c <= Len(rws[q])}}
    IN Max(min_width, SetMax(lens) + 3)

\* _calculate_column_widths: the width of column c (1-based)
ColumnWidth(hdrs, rws, c) ==
    LET lens == {Len(hdrs[c])} \cup {Len(rws[r][c]) : r \in {q \in 1..Len(rws) : c <= Len(rws[q])}}
    IN Max(min_width, Min(SetMax(lens) + 3, max_width))

\* _calculate_column_widths over the columns visible_start..visible_end-1 (0-based)
CalculateColumnWidths(hdrs, rws, visible_start, visible_end) ==
    [i \in 1..(Min(visible_end, Len(hdrs)) - visible_start) |->
        ColumnWidth(hdrs, rws, visible_start + i)]

\* CellText with the cut made at w - 3 characters
CellTextCutLate(cell, w) ==
    LET shown == IF Len(cell) > w - 3 THEN Prefix(cell, w - 3) \o Ellipsis ELSE cell
    IN <<" ">> \o LJust(shown, w - 2) \o <<" ">>

\* _update_display: the text of a data cell in a column of width w
CellText(cell, w) ==
    LET shown == IF Len(cell) > w - 3 THEN Prefix(cell, w - 6) \o Ellipsis ELSE cell
    IN <<" ">> \o LJust(shown, w - 2) \o <<" ">>

\* _update_display: the text of a header cell
HeaderText(h, w) == <<" ">> \o LJust(h, w - 2) \o <<" ">>

\* VisibleEnd with a window of one column more
VisibleEndOneMore(hdrs, pos) == Min(pos + max_cols_per_screen + 1, Len(hdrs))

\* _update_display: the end of the visible column window (0-based, exclusive)
VisibleEnd(hdrs, pos) == Min(pos + max_cols_per_screen, Len(hdrs))

\* _update_display: the widgets of the list walker
UpdateDisplay(hdrs, rws, pos) ==
    IF hdrs = <<>> \/ rws = <<>> THEN <<>>
    ELSE LET ve == VisibleEnd(hdrs, pos)
             widths == CalculateColumnWidths(hdrs, rws, pos, ve)
             header_row ==
                 [attr |-> "header", left |-> pos > 0, right |-> ve < Len(hdrs),
                  cells |-> [i \in 1..(ve - pos) |->
                      [width |-> widths[i], text |-> HeaderText(hdrs[pos + i], widths[i])]]]
             data_row(row) ==
                 [attr |-> "row", left |-> pos > 0, right |-> ve < Len(hdrs),
                  cells |-> [i \in 1..(Min(ve, Len(row)) - pos) |->
                      [width |-> widths[i], text |-> CellText(row[pos + i], widths[i])]]]
         IN <<header_row>> \o [r \in 1..Len(rws) |-> data_row(rws[r])]

(***************************************************************************)
(* ResultsTable: the caption.  A caption is the sequence of its parts, the *)
(* pieces that " | " separates.                                            *)
(***************************************************************************)
Part(kind, a, b, n) == [kind |-> kind, a |-> a, b |-> b, n |-> n]

NoResults == Part("No results", 0, 0, 0)
NoResultsFound == Part("No results found", 0, 0, 0)
\* "Showing {a}-{b} of {n} results"
ShowingRange(a, b, n) == Part("Showing a-b of n results", a, b, n)
\* "Showing {n} results"
ShowingCount(n) == Part("Showing n results", 0, 0, n)
\* "Columns {a}-{b} of {n} (arrows to scroll)"
ColumnsPart(a, b, n) == Part("Columns a-b of n", a, b, n)
HintKql == Part("Press 'n' for next page, 'p' for previous, 'q' to quit", 0, 0, 0)
HintEsql == Part("Press 'q' to quit", 0, 0, 0)

\* scroll_info
ScrollInfo(hdrs, pos) ==
    IF Len(hdrs) > max_cols_per_screen
    THEN <<ColumnsPart(pos + 1, Min(pos + max_cols_per_screen, Len(hdrs)), Len(hdrs))>>
    ELSE <<>>

\* substring tests of _update_info_text on the caption
HasShowing(parts) == \E i \in 1..Len(parts) :
    parts[i].kind \in {"Showing a-b of n results", "Showing n results"}
HasOf(parts) == \E i \in 1..Len(parts) :
    parts[i].kind \in {"Showing a-b of n results", "Columns a-b of n"}
HasResults(parts) == \E i \in 1..Len(parts) :
    parts[i].kind \in {"Showing a-b of n results", "Showing n results",
                       "No results", "No results found"}

\* _update_info_text
UpdateInfoText(parts, hdrs, pos) ==
    IF HasShowing(parts)
    THEN IF HasOf(parts) /\ HasResults(parts)
         THEN <<parts[1]>> \o ScrollInfo(hdrs, pos) \o <<HintKql>>
         ELSE <<parts[1]>> \o ScrollInfo(hdrs, pos) \o <<HintEsql>>
    ELSE parts

(***************************************************************************)
(* ResultsTable.display_results                                            *)
(***************************************************************************)
\* _display_kql_results
DisplayKqlResults(resp) ==
    /\ total_hits' = TotalHitsOf(resp.total)
    /\ IF resp.hits = <<>>
       THEN /\ info_text' = <<NoResultsFound>>
            /\ list_walker' = <<>>
            /\ UNCHANGED <<headers, rows, hscroll_pos>>
       ELSE LET hdrs == KqlHeaders(resp.hits)
                t == FilterEmptyColumns(hdrs, KqlRows(resp.hits, hdrs))
                start == from_ + 1
                end == Min(from_ + Len(resp.hits), total_hits')
            IN /\ headers' = t.headers
               /\ rows' = t.rows
               /\ hscroll_pos' = 0
               /\ list_walker' = UpdateDisplay(t.headers, t.rows, 0)
               /\ info_text' = <<ShowingRange(start, end, total_hits')>>
                                   \o ScrollInfo(t.headers, 0) \o <<HintKql>>

\* _display_esql_results
DisplayEsqlResults(resp) ==
    IF resp.columns = <<>> \/ resp.values = <<>>
    THEN /\ info_text' = <<NoResultsFound>>
         /\ list_walker' = <<>>
         /\ UNCHANGED <<headers, rows, hscroll_pos, total_hits>>
    ELSE LET rows_list == EsqlRows(resp.values)
             t == FilterEmptyColumns(EsqlHeaders(resp.columns), rows_list)
         IN /\ headers' = t.headers
            /\ rows' = t.rows
            /\ total_hits' = Len(rows_list)
            /\ hscroll_pos' = 0
            /\ list_walker' = UpdateDisplay(t.headers, t.rows, 0)
            /\ info_text' = <<ShowingCount(Len(rows_list))>>
                                \o ScrollInfo(t.headers, 0) \o <<HintEsql>>

\* display_results
DisplayResults(resp, query_type) ==
    IF query_type = "ESQL" THEN DisplayEsqlResults(resp) ELSE DisplayKqlResults(resp)

(***************************************************************************)
(* ResultsTable.keypress: horizontal scrolling.                            *)
(***************************************************************************)
\* MaxScroll with one column too few taken for the screen
MaxScrollOffByOne(hdrs) == Max(0, Len(hdrs) - max_cols_per_screen + 1)

\* max_scroll
MaxScroll(hdrs) == Max(0, Len(hdrs) - max_cols_per_screen)

\* CanScrollRight with the comparison made inclusive
CanScrollRightInclusive(pos, hdrs) == pos <= MaxScroll(hdrs)

CanScrollRight(pos, hdrs) == pos < MaxScroll(hdrs)

CanScrollLeft(pos) == pos > 0

\* the table after the scroll position moved to pos
Scrolled(pos) ==
    /\ hscroll_pos' = pos
    /\ list_walker' = UpdateDisplay(headers, rows, pos)
    /\ info_text' = UpdateInfoText(info_text, headers, pos)
    /\ UNCHANGED <<headers, rows, total_hits>>

\* key 'right' or 'l'
ScrollRight ==
    /\ running
    /\ key' = "right"
    /\ sent' = <<>>
    /\ IF CanScrollRight(hscroll_pos, headers)
       THEN Scrolled(hscroll_pos + 1)
       ELSE UNCHANGED tableVars
    /\ UNCHANGED <<query_text, esql_radio, current_from, status_bar, response, running>>
    /\ UNCHANGED <<timeVars, search_in_progress, cluster>>

\* key 'left' or 'h'
ScrollLeft ==
    /\ running
    /\ key' = "left"
    /\ sent' = <<>>
    /\ IF CanScrollLeft(hscroll_pos)
       THEN Scrolled(hscroll_pos - 1)
       ELSE UNCHANGED tableVars
    /\ UNCHANGED <<query_text, esql_radio, current_from, status_bar, response, running>>
    /\ UNCHANGED <<timeVars, search_in_progress, cluster>>

(***************************************************************************)
(* TimeRange: instants, presets, their resolution and their encoding.      *)
(***************************************************************************)
\* a datetime: the day since 1970-01-01, the second of the day, the microsecond
Instant(day, sec, us) == [day |-> day, sec |-> sec, us |-> us]

\* timedelta(days=d, hours=h, minutes=m), in seconds
timedelta(d, h, m) == (d * 24 + h) * 3600 + m * 60

PRESETS ==
    <<<<"Last 15 minutes", timedelta(0, 0, 15)>>,
      <<"Last 30 minutes", timedelta(0, 0, 30)>>,
      <<"Last 1 hour", timedelta(0, 1, 0)>>,
      <<"Last 3 hours", timedelta(0, 3, 0)>>,
      <<"Last 6 hours", timedelta(0, 6, 0)>>,
      <<"Last 12 hours", timedelta(0, 12, 0)>>,
      <<"Last 24 hours", timedelta(0, 24, 0)>>,
      <<"Last 7 days", timedelta(7, 0, 0)>>,
      <<"Last 30 days", timedelta(30, 0, 0)>>>>

DEFAULT_PRESET == "Last 15 minutes"

\* a button label: the marker "> " or nothing, then the name
Label(marker, name) == <<marker, name>>

\* label.replace('> ', ''): no preset name holds the marker
UnmarkedLabel(label) == label[2]

\* TimeRangeSelector.__init__: one button per preset, in the order of PRESETS
InitialButtons ==
    [i \in 1..Len(PRESETS) |->
        IF Keys(PRESETS)[i] = DEFAULT_PRESET THEN Label("> ", Keys(PRESETS)[i])
        ELSE Label("", Keys(PRESETS)[i])]

\* datetime - timedelta
MinusDelta(t, delta) ==
    LET s == t.sec - delta
    IN Instant(t.day + (s \div 86400), s % 86400, t.us)

\* get_time_range with every name taken as a preset of 30 minutes unless known
get_time_range_no_default(preset, clock) ==
    <<MinusDelta(clock, DictGet(PRESETS, preset, timedelta(0, 0, 30))), clock>>

\* TimeRange.get_time_range(preset) when datetime.utcnow() reads clock
get_time_range(preset, clock) ==
    LET p == IF preset \notin Range(Keys(PRESETS)) THEN DEFAULT_PRESET ELSE preset
        delta == DictGet(PRESETS, p, 0)
        end_time == clock
        start_time == MinusDelta(end_time, delta)
    IN <<start_time, end_time>>

\* the date of a day number: <<year, month, day>>
CivilFromDays(n) ==
    LET z == n + 719468
        era == z \div 146097
        doe == z - era * 146097
        yoe == (doe - (doe \div 1460) + (doe \div 36524) - (doe \div 146096)) \div 365
        doy == doe - (365 * yoe + (yoe \div 4) - (yoe \div 100))
        mp == (5 * doy + 2) \div 153
        d == doy - ((153 * mp + 2) \div 5) + 1
        m == IF mp < 10 THEN mp + 3 ELSE mp - 9
    IN <<yoe + era * 400 + (IF m <= 2 THEN 1 ELSE 0), m, d>>

\* the decimal digits of n, zero-padded to w characters
ZeroPad(n, w) == [i \in 1..(w - Len(NatStr(n))) |-> "0"] \o NatStr(n)

\* datetime.strftime('%Y-%m-%dT%H:%M:%S.%f')
strftime(t) ==
    LET ymd == CivilFromDays(t.day)
    IN ZeroPad(ymd[1], 4) \o <<"-">> \o ZeroPad(ymd[2], 2) \o <<"-">> \o ZeroPad(ymd[3], 2)
         \o <<"T">> \o ZeroPad(t.sec \div 3600, 2) \o <<":">> \o ZeroPad((t.sec \div 60) % 60, 2)
         \o <<":">> \o ZeroPad(t.sec % 60, 2) \o <<".">> \o ZeroPad(t.us, 6)

\* to_elasticsearch_format with the instant rounded to the nearest millisecond
to_elasticsearch_format_rounded(start_time, end_time) ==
    LET r(t) == IF (t.us + 500) \div 1000 > 999
                THEN [t EXCEPT !.us = 999000]
                ELSE [t EXCEPT !.us = ((t.us + 500) \div 1000) * 1000]
    IN [gte |-> Prefix(strftime(r(start_time)), Len(strftime(r(start_time))) - 3) \o <<"Z">>,
        lte |-> Prefix(strftime(r(end_time)), Len(strftime(r(end_time))) - 3) \o <<"Z">>]

\* TimeRange.to_elasticsearch_format
to_elasticsearch_format(start_time, end_time) ==
    [gte |-> Prefix(strftime(start_time), Len(strftime(start_time)) - 3) \o <<"Z">>,
     lte |-> Prefix(strftime(end_time), Len(strftime(end_time)) - 3) \o <<"Z">>]

\* the readings of the clock: 2024-01-01T01:00:00.000000,
\* 2024-03-01T00:10:00.001500, 2024-12-31T23:59:59.999999 and
\* 2025-01-01T00:00:00.000999
Instants ==
    {Instant(19723, 3600, 0), Instant(19783, 600, 1500),
     Instant(20088, 86399, 999999), Instant(20089, 0, 999)}

\* the clock when the session starts
SessionStart == Instant(19723, 3600, 0)

\* no time range has been resolved yet
Unresolved == [preset |-> "", start_time |-> SessionStart, end_time |-> SessionStart]

\* instant a is before instant b
Before(a, b) ==
    \/ a.day < b.day
    \/ a.day = b.day /\ a.sec < b.sec
    \/ a.day = b.day /\ a.sec = b.sec /\ a.us < b.us

(***************************************************************************)
(* ESClient: what search_kql and query_esql send to Elasticsearch.         *)
(***************************************************************************)
\* time_range=None
None == <<>>

\* the default of the parameter time_field
S_timestamp == <<"@", "t", "i", "m", "e", "s", "t", "a", "m", "p">>

S_WHERE == <<"W", "H", "E", "R", "E">>
S_FROM == <<"F", "R", "O", "M">>

\* str.upper() of one ASCII character
UpperChar(c) ==
    LET lower == <<"a", "b", "c", "d", "e", "f", "g", "h", "i", "j", "k", "l", "m", "n", "o", "p", "q", "r", "s", "t", "u", "v", "w", "x", "y", "z">>
        upper == <<"A", "B", "C", "D", "E", "F", "G", "H", "I", "J", "K", "L", "M", "N", "O", "P", "Q", "R", "S", "T", "U", "V", "W", "X", "Y", "Z">>
    IN IF \E k \in 1..Len(lower) : lower[k] = c
       THEN upper[CHOOSE k \in 1..Len(lower) : lower[k] = c]
       ELSE c

\* str.upper()
Upper(s) == [i \in 1..Len(s) |-> UpperChar(s[i])]

\* s.find(sub, start): the 0-based position of the first sub at or after
\* start, -1 when there is none
Find(s, sub, start) ==
    LET at == {p \in start..(Len(s) - Len(sub)) : SubSeq(s, p + 1, p + Len(sub)) = sub}
    IN IF at = {} THEN 0 - 1 ELSE CHOOSE p \in at : \A q \in at : p <= q

\* s[n:]
Suffix(s, n) == SubSeq(s, Min(Max(n, 0), Len(s)) + 1, Len(s))

\* search_kql: the range clause
KqlTimeFilter(time_range, time_field) ==
    LET start_time == time_range[1]
        end_time == time_range[2]
    IN <<"range", time_field,
         Prefix(strftime(start_time), Len(strftime(start_time)) - 3) \o <<"Z">>,
         Prefix(strftime(end_time), Len(strftime(end_time)) - 3) \o <<"Z">>>>

\* FinalQuery with a single clause wrapped in bool/must as well
FinalQueryAlwaysBool(query_clauses) ==
    IF Len(query_clauses) >= 1 THEN <<"bool", <<"must", query_clauses>>>>
    ELSE <<"match_all">>

\* search_kql: final_query
FinalQuery(query_clauses) ==
    IF Len(query_clauses) = 1 THEN query_clauses[1]
    ELSE IF Len(query_clauses) > 1 THEN <<"bool", <<"must", query_clauses>>>>
    ELSE <<"match_all">>

\* search_kql: search_body
SearchBody(query, size, offset, time_range, time_field) ==
    LET query_clauses ==
            (IF time_range # None THEN <<KqlTimeFilter(time_range, time_field)>> ELSE <<>>)
                \o (IF Strip(query) # <<>> THEN <<<<"query_string", query>>>> ELSE <<>>)
    IN [query |-> FinalQuery(query_clauses), size |-> size, from_ |-> offset,
        sort |-> <<time_field, "desc">>]

\* query_esql: {time_field} >= "{start_str}" AND {time_field} <= "{end_str}"
TimeCondition(time_field, start_str, end_str) ==
    time_field \o <<" ", ">", "=", " ", "\"">> \o start_str \o <<"\"", " ", "A", "N", "D", " ">>
        \o time_field \o <<" ", "<", "=", " ", "\"">> \o end_str \o <<"\"">>

\* query_esql: the query text of the payload
EsqlQuery(query, time_range, time_field) ==
    IF time_range = None THEN query
    ELSE LET start_str == Prefix(strftime(time_range[1]), Len(strftime(time_range[1])) - 3)
                              \o <<"Z">>
             end_str == Prefix(strftime(time_range[2]), Len(strftime(time_range[2])) - 3)
                            \o <<"Z">>
             cond == TimeCondition(time_field, start_str, end_str)
             query_upper == Upper(query)
         IN IF Find(query_upper, S_WHERE, 0) # 0 - 1
            THEN LET where_pos == Find(query_upper, S_WHERE, 0)
                     after_where == Strip(Suffix(query, where_pos + 5))
                     time_filter == cond \o <<" ", "A", "N", "D", " ">>
                 IN Prefix(query, where_pos + 5) \o <<" ">> \o time_filter \o after_where
            ELSE LET from_pos == Find(query_upper, S_FROM, 0)
                 IN IF from_pos # 0 - 1
                    THEN LET pipe_pos == Find(query, <<"|">>, from_pos)
                         IN IF pipe_pos # 0 - 1
                            THEN Strip(Prefix(query, pipe_pos)) \o <<" ", "|", " ", "W", "H", "E", "R", "E", " ">> \o cond
                                     \o <<" ", "|", " ">> \o Strip(Suffix(query, pipe_pos + 1))
                            ELSE Strip(query) \o <<" ", "|", " ", "W", "H", "E", "R", "E", " ">> \o cond
                    ELSE query

(***************************************************************************)
(* The Search Backend: requests and what it may return.                    *)
(***************************************************************************)
Total(shape, value) == [shape |-> shape, value |-> value]

Hit(id, index, source) == [id |-> StrVal(id), index |-> StrVal(index), source |-> source]

NoResponse ==
    [kind |-> "none", hits |-> <<>>, total |-> Total("absent", 0),
     columns |-> <<>>, values |-> <<>>, exc |-> "", msg |-> <<>>, cause |-> <<>>]

\* the body of a search response: hits.hits and hits.total
KqlResponse(hits, total) == [NoResponse EXCEPT !.kind = "kql", !.hits = hits, !.total = total]

\* the body of an ES|QL response: the column names and the value rows
EsqlResponse(columns, values) ==
    [NoResponse EXCEPT !.kind = "esql", !.columns = columns, !.values = values]

\* an exception raised by ESClient.search_kql or ESClient.query_esql while it
\* handles the exception cause of the transport
Failure(exc, msg, cause) ==
    [NoResponse EXCEPT !.kind = "error", !.exc = exc, !.msg = msg, !.cause = <<cause>>]

\* a call of the client: its arguments, and the body it sends
KqlRequest(query, offset, size, range) ==
    [op |-> "search_kql", query |-> query, from_ |-> offset, size |-> size,
     time_range |-> range, body |-> SearchBody(query, size, offset, range, S_timestamp)]
EsqlRequest(query, range) ==
    [op |-> "query_esql", query |-> query, from_ |-> 0 - 1, size |-> 0 - 1,
     time_range |-> range, body |-> [query |-> EsqlQuery(query, range, S_timestamp)]]

FieldName(i) == <<"f">> \o NatStr(i)

\* a source document with the fields f1..fn
WideSource(n) == [i \in 1..n |-> <<FieldName(i), StrVal(<<"x">>)>>]

SessionHitLists ==
    {<<>>,
     <<Hit(<<"1">>, <<"i">>, WideSource(MaxFields)), Hit(<<"2">>, <<"i">>, WideSource(1))>>,
     <<Hit(<<"3">>, <<"i">>, WideSource(1))>>}

SessionKqlResponses ==
    {KqlResponse(h, Total("dict", v)) : h \in SessionHitLists, v \in {0, default_size, MaxTotal}}
        \cup {KqlResponse(h, Total("scalar", Len(h))) : h \in SessionHitLists}

SessionEsqlResponses ==
    {EsqlResponse(<<>>, <<>>),
     EsqlResponse([i \in 1..(MaxFields + 1) |-> FieldName(i)],
                  <<[i \in 1..(MaxFields + 1) |-> IF i = 2 THEN NullVal ELSE IntVal(i)]>>),
     EsqlResponse(<<FieldName(1), FieldName(2)>>,
                  <<<<StrVal(<<"x">>), NullVal>>, <<BoolVal(TRUE), NullVal>>>>)}

\* what went wrong in a call of Elasticsearch: the exception of the transport
\* (status 0: no HTTP response) and the text it carries
RawFailure(exc, status, reason) == [exc |-> exc, status |-> status, reason |-> reason]

\* search_kql: the exception it raises for a failure
search_kql_raises(raw) ==
    IF raw.exc = "RequestError"
    THEN Failure("ValueError", <<"I", "n", "v", "a", "l", "i", "d", " ", "K", "Q", "L", " ", "q", "u", "e", "r", "y", ":", " ">> \o raw.reason, raw)
    ELSE Failure("RuntimeError", <<"S", "e", "a", "r", "c", "h", " ", "f", "a", "i", "l", "e", "d", ":", " ">> \o raw.reason, raw)

\* query_esql: the exception it raises for a failure
query_esql_raises(raw) ==
    IF raw.exc = "HTTPError"
    THEN IF raw.status = 504
         THEN Failure("RuntimeError",
                  <<"E", "S", "Q", "L", " ", "q", "u", "e", "r", "y", " ", "t", "i", "m", "e", "d", " ", "o", "u", "t", " ", "(", "5", "0", "4", " ", "G", "a", "t", "e", "w", "a", "y", " ", "T", "i", "m", "e", "o", "u", "t", ")", ".", " ">>
                      \o <<"T", "h", "e", " ", "q", "u", "e", "r", "y", " ", "i", "s", " ", "t", "a", "k", "i", "n", "g", " ", "t", "o", "o", " ", "l", "o", "n", "g", " ", "t", "o", " ", "e", "x", "e", "c", "u", "t", "e", ".", " ">>
                      \o <<"T", "r", "y", ":", " ", "1", ")", " ", "R", "e", "d", "u", "c", "i", "n", "g", " ", "t", "h", "e", " ", "t", "i", "m", "e", " ", "r", "a", "n", "g", "e", ",", " ", "2", ")", " ", "A", "d", "d", "i", "n", "g", " ", "a", " ", "L", "I", "M", "I", "T", " ", "c", "l", "a", "u", "s", "e", ",", " ">>
                      \o <<"3", ")", " ", "M", "a", "k", "i", "n", "g", " ", "t", "h", "e", " ", "q", "u", "e", "r", "y", " ", "m", "o", "r", "e", " ", "s", "p", "e", "c", "i", "f", "i", "c", ",", " ", "o", "r", " ", "4", ")", " ", "U", "s", "i", "n", "g", " ", "K", "Q", "L", " ", "i", "n", "s", "t", "e", "a", "d", ".">>, raw)
         ELSE Failure("ValueError", <<"I", "n", "v", "a", "l", "i", "d", " ", "E", "S", "Q", "L", " ", "q", "u", "e", "r", "y", ":", " ">> \o raw.reason, raw)
    ELSE IF raw.exc = "Timeout"
    THEN Failure("RuntimeError",
             <<"E", "S", "Q", "L", " ", "q", "u", "e", "r", "y", " ", "t", "i", "m", "e", "d", " ", "o", "u", "t", ".", " ", "T", "h", "e", " ", "q", "u", "e", "r", "y", " ", "t", "o", "o", "k", " ", "l", "o", "n", "g", "e", "r", " ", "t", "h", "a", "n", " ", "1", "0", " ", "m", "i", "n", "u", "t", "e", "s", " ", "t", "o", " ", "e", "x", "e", "c", "u", "t", "e", ".", " ">>
                 \o <<"T", "r", "y", ":", " ", "1", ")", " ", "R", "e", "d", "u", "c", "i", "n", "g", " ", "t", "h", "e", " ", "t", "i", "m", "e", " ", "r", "a", "n", "g", "e", ",", " ", "2", ")", " ", "A", "d", "d", "i", "n", "g", " ", "a", " ", "L", "I", "M", "I", "T", " ", "c", "l", "a", "u", "s", "e", ",", " ">>
                 \o <<"3", ")", " ", "M", "a", "k", "i", "n", "g", " ", "t", "h", "e", " ", "q", "u", "e", "r", "y", " ", "m", "o", "r", "e", " ", "s", "p", "e", "c", "i", "f", "i", "c", ",", " ", "o", "r", " ", "4", ")", " ", "U", "s", "i", "n", "g", " ", "K", "Q", "L", " ", "i", "n", "s", "t", "e", "a", "d", ".">>, raw)
    ELSE Failure("RuntimeError", <<"E", "S", "Q", "L", " ", "q", "u", "e", "r", "y", " ", "f", "a", "i", "l", "e", "d", ":", " ">> \o raw.reason, raw)

\* a text of n characters
Fill(n) == [i \in 1..n |-> "x"]

\* the failures of a session: a gateway timeout and a query rejected with a
\* short reason, a query rejected with a reason that brings the message to
\* the limit of the status line and a lost connection whose text takes it
\* past the limit
SessionRawFailures(query_type) ==
    IF query_type = "ESQL"
    THEN {RawFailure("HTTPError", 504, <<>>), RawFailure("HTTPError", 400, <<"b", "a", "d">>)}
    ELSE {RawFailure("RequestError", 400, Fill(MaxReason - 1)),
          RawFailure("ConnectionError", 0, Fill(MaxReason + 4))}

SessionFailures(query_type) ==
    IF query_type = "ESQL"
    THEN {query_esql_raises(raw) : raw \in SessionRawFailures(query_type)}
    ELSE {search_kql_raises(raw) : raw \in SessionRawFailures(query_type)}

\* the answers of a cluster that holds many documents: an ES|QL result of
\* more rows than a page and one of a single row, a page of a long hit list
LargeResponses(query_type) ==
    IF query_type = "ESQL"
    THEN {EsqlResponse(<<FieldName(1)>>, [r \in 1..(default_size + 1) |-> <<IntVal(r)>>]),
          EsqlResponse(<<FieldName(1)>>, <<<<IntVal(1)>>>>)}
    ELSE {KqlResponse(<<Hit(<<"3">>, <<"i">>, WideSource(1))>>, Total("dict", MaxTotal))}

\* the failures of a cluster in trouble: rejected queries, refused
\* credentials, server errors, gateway timeouts, timeouts of the client and
\* lost connections
TroubleRawFailures(query_type) ==
    IF query_type = "ESQL"
    THEN {RawFailure("HTTPError", 400, <<"b", "a", "d">>),
          RawFailure("HTTPError", 401, <<"d", "e", "n", "i", "e", "d">>),
          RawFailure("HTTPError", 500, <<"b", "o", "o", "m">>),
          RawFailure("HTTPError", 503, <<"b", "u", "s", "y">>),
          RawFailure("HTTPError", 504, <<>>),
          RawFailure("Timeout", 0, <<>>),
          RawFailure("ConnectionError", 0, <<"d", "o", "w", "n">>)}
    ELSE {RawFailure("RequestError", 400, <<"b", "a", "d">>),
          RawFailure("AuthenticationException", 401, <<"d", "e", "n", "i", "e", "d">>),
          RawFailure("TransportError", 500, <<"b", "o", "o", "m">>),
          RawFailure("ConnectionTimeout", 0, <<"s", "l", "o", "w">>),
          RawFailure("ConnectionError", 0, <<"d", "o", "w", "n">>)}

\* the answer of a quiet cluster: one row, one hit
QuietResponses(query_type) ==
    IF query_type = "ESQL"
    THEN {EsqlResponse(<<FieldName(1)>>, <<<<IntVal(1)>>>>)}
    ELSE {KqlResponse(<<Hit(<<"3">>, <<"i">>, WideSource(1))>>, Total("dict", 1))}

TroubleOutcomes(query_type) ==
    (IF query_type = "ESQL"
     THEN {query_esql_raises(raw) : raw \in TroubleRawFailures(query_type)}
     ELSE {search_kql_raises(raw) : raw \in TroubleRawFailures(query_type)})
        \cup QuietResponses(query_type)

\* what a call of the client may produce
BackendOutcomes(query_type) ==
    IF cluster = "large" THEN LargeResponses(query_type)
    ELSE IF cluster = "trouble" THEN TroubleOutcomes(query_type)
    ELSE IF cluster = "quiet" THEN QuietResponses(query_type)
    ELSE (IF query_type = "ESQL" THEN SessionEsqlResponses ELSE SessionKqlResponses)
             \cup SessionFailures(query_type)

(***************************************************************************)
(* MainWindow._on_query_submit                                             *)
(***************************************************************************)
Status(kind, query_type, hits, msg, attr) ==
    [kind |-> kind, qtype |-> query_type, hits |-> hits, msg |-> msg, attr |-> attr]

StatusConnected == Status("Connected to Elasticsearch", "", 0, <<>>, "status")

SuccessStatus(query_type, hits_count) ==
    Status("query executed successfully", query_type, hits_count, <<>>, "status")

\* TruncateError with the cut made at the limit itself
TruncateErrorAtLimit(msg) == IF Len(msg) > 120 THEN Prefix(msg, 120) \o Ellipsis ELSE msg

\* the except clauses: the message shown for an exception
TruncateError(msg) == IF Len(msg) > 120 THEN Prefix(msg, 117) \o Ellipsis ELSE msg

\* the status set before the client is called
ExecutingStatus(query_type) == Status("Executing", query_type, 0, <<>>, "status")

\* ExceptClause with the clauses for RuntimeError and Exception left out
ExceptClauseValueErrorOnly(exc) ==
    IF exc = "ValueError" THEN "Query error" ELSE "propagates"

\* the except clause that takes an exception of class exc: the prefix it
\* shows, "propagates" when no clause matches
ExceptClause(exc) ==
    IF exc = "ValueError" THEN "Query error"
    ELSE IF exc = "RuntimeError" THEN "Error"
    ELSE IF exc \notin {"KeyboardInterrupt", "SystemExit", "GeneratorExit"} THEN "Error"
    ELSE "propagates"

ErrorStatus(out) == Status(ExceptClause(out.exc), "", 0, TruncateError(out.msg), "error")

\* SearchInProgress with the except clauses leaving the flag as it is
SearchInProgressKeptOnError(out) == IF out.kind = "error" THEN "True" ELSE "False"

\* _search_in_progress when _on_query_submit is left with outcome out: set on
\* entry, cleared after the call returns and in every except clause
SearchInProgress(out) ==
    IF out.kind = "error" /\ ExceptClause(out.exc) = "propagates" THEN "True" ELSE "False"

\* "Reset pagination for new queries": current_from after the first statement
\* of _on_query_submit, entered with current_from = cf
PaginationOnSubmit(cf) == 0

current_size == default_size

\* TableOnFailure with the table cleared as for an answer without results
TableClearedOnFailure ==
    /\ info_text' = <<NoResultsFound>>
    /\ list_walker' = <<>>
    /\ UNCHANGED <<headers, rows, hscroll_pos, total_hits>>

\* the except clauses: the results table is not touched
TableOnFailure == UNCHANGED tableVars

\* SelectorTimeRange with the clock read when the session started
SelectorTimeRangeAtStart(preset, clock) == get_time_range(preset, SessionStart)

\* TimeRangeSelector.get_time_range() when datetime.utcnow() reads clock
SelectorTimeRange(preset, clock) == get_time_range(preset, clock)

\* _on_query_submit(query, query_type), entered with current_from = cf
OnQuerySubmit(query, query_type, cf) ==
    LET offset == PaginationOnSubmit(cf)
        range == SelectorTimeRange(current_preset, now)
        req == IF query_type = "ESQL" THEN EsqlRequest(query, range)
               ELSE KqlRequest(query, offset, current_size, range)
    IN /\ current_from' = offset
       /\ resolved_range' = [preset |-> current_preset,
                             start_time |-> range[1], end_time |-> range[2]]
       /\ sent' = <<req>>
       /\ \E out \in BackendOutcomes(query_type) :
            /\ response' = out
            /\ search_in_progress' = SearchInProgress(out)
            /\ IF out.kind = "error"
               THEN IF ExceptClause(out.exc) = "propagates"
                    THEN /\ status_bar' = ExecutingStatus(query_type)
                         /\ running' = FALSE
                         /\ UNCHANGED tableVars
                    ELSE /\ status_bar' = ErrorStatus(out)
                         /\ TableOnFailure
                         /\ UNCHANGED running
               ELSE /\ DisplayResults(out, query_type)
                    /\ status_bar' = SuccessStatus(query_type, total_hits')
                    /\ UNCHANGED running

(***************************************************************************)
(* QueryInput                                                              *)
(***************************************************************************)
Texts == {<<>>, <<" ", " ">>, <<"a">>, <<" ", "a", " ">>}

\* get_query: the selected language
QueryType == IF esql_radio THEN "ESQL" ELSE "KQL"

\* keypress 'enter': the text handed to on_submit, <<>> when nothing is submitted
SubmittedText(text) == Strip(text)

\* QueryInput.keypress, key 'enter'
Enter ==
    /\ running
    /\ key' = "enter"
    /\ IF SubmittedText(query_text) # <<>>
       THEN OnQuerySubmit(SubmittedText(query_text), QueryType, current_from)
       ELSE /\ sent' = <<>>
            /\ UNCHANGED <<current_from, status_bar, response, tableVars, running, resolved_range, search_in_progress>>
    /\ UNCHANGED <<query_text, esql_radio, now, current_preset, buttons, cluster>>

\* QueryInput.keypress, key 'esc'
Esc ==
    /\ running
    /\ key' = "esc"
    /\ query_text' = <<>>
    /\ sent' = <<>>
    /\ UNCHANGED <<esql_radio, current_from, status_bar, response, tableVars, running>>
    /\ UNCHANGED <<timeVars, search_in_progress, cluster>>

\* the edit widget: the buffer after typing
EditText ==
    /\ running
    /\ key' = "edit"
    /\ \E t \in Texts : query_text' = t
    /\ sent' = <<>>
    /\ UNCHANGED <<esql_radio, current_from, status_bar, response, tableVars, running>>
    /\ UNCHANGED <<timeVars, search_in_progress, cluster>>

\* the radio buttons: one of ESQL and KQL is selected
SelectType ==
    /\ running
    /\ key' = "radio"
    /\ \E b \in BOOLEAN : esql_radio' = b
    /\ sent' = <<>>
    /\ UNCHANGED <<query_text, current_from, status_bar, response, tableVars, running>>
    /\ UNCHANGED <<timeVars, search_in_progress, cluster>>

(***************************************************************************)
(* main.handle_unhandled_input                                             *)
(***************************************************************************)
\* NextPageAllowed with the comparison made inclusive
NextPageAllowedInclusive(cf, size, total) == cf + size <= total

\* the condition of the 'n' branch
NextPageAllowed(cf, size, total) == cf + size < total

\* the condition of the 'p' branch
PreviousPageAllowed(cf) == cf > 0

\* `if query:` on the text get_query returns
QueryGiven(text) == text # <<>>

\* the tail shared by the 'n' and 'p' branches, current_from already set to cf
Resubmit(cf) ==
    IF QueryGiven(query_text)
    THEN OnQuerySubmit(query_text, QueryType, cf)
    ELSE /\ current_from' = cf
         /\ sent' = <<>>
         /\ UNCHANGED <<status_bar, response, tableVars, running, resolved_range, search_in_progress>>

\* key 'n'
PressN ==
    /\ running
    /\ key' = "n"
    /\ IF NextPageAllowed(current_from, current_size, total_hits)
       THEN Resubmit(current_from + current_size)
       ELSE /\ sent' = <<>>
            /\ UNCHANGED <<current_from, status_bar, response, tableVars, running, resolved_range, search_in_progress>>
    /\ UNCHANGED <<query_text, esql_radio, now, current_preset, buttons, cluster>>

\* key 'p'
PressP ==
    /\ running
    /\ key' = "p"
    /\ IF PreviousPageAllowed(current_from)
       THEN Resubmit(Max(0, current_from - current_size))
       ELSE /\ sent' = <<>>
            /\ UNCHANGED <<current_from, status_bar, response, tableVars, running, resolved_range, search_in_progress>>
    /\ UNCHANGED <<query_text, esql_radio, now, current_preset, buttons, cluster>>

\* key 'q': ExitMainLoop
Quit ==
    /\ running
    /\ key' = "q"
    /\ running' = FALSE
    /\ sent' = <<>>
    /\ UNCHANGED <<query_text, esql_radio, current_from, status_bar, response, tableVars>>
    /\ UNCHANGED <<timeVars, search_in_progress, cluster>>

(***************************************************************************)
(* The session.                                                            *)
(***************************************************************************)
Init ==
    /\ query_text = <<>>
    /\ esql_radio = TRUE
    /\ current_from = 0
    /\ status_bar = StatusConnected
    /\ headers = <<>>
    /\ rows = <<>>
    /\ total_hits = 0
    /\ hscroll_pos = 0
    /\ list_walker = <<>>
    /\ info_text = <<NoResults>>
    /\ response = NoResponse
    /\ sent = <<>>
    /\ key = "none"
    /\ running = TRUE
    /\ now = SessionStart
    /\ current_preset = DEFAULT_PRESET
    /\ resolved_range = Unresolved
    /\ buttons = InitialButtons
    /\ search_in_progress = "unset"
    /\ cluster = "small"

Next ==
    \/ Enter
    \/ Esc
    \/ EditText
    \/ SelectType
    \/ PressN
    \/ PressP
    \/ ScrollRight
    \/ ScrollLeft
    \/ Quit

Spec == Init /\ [][Next]_vars

(***************************************************************************)
(* The results table on its own: a fresh ResultsTable is handed one        *)
(* response out of a bounded set of response shapes, then scrolled.        *)
(***************************************************************************)
\* the orders in which a document lists its fields; a document may itself
\* hold a field named _id
FieldLists ==
    {<<>>, <<<<"a">>>>, <<<<"b">>>>, <<S_id>>,
     <<<<"a">>, <<"b">>>>, <<<<"b">>, <<"a">>>>,
     <<<<"a">>, S_id>>, <<S_id, <<"a">>>>}

\* the sequences over S of length at most n
SeqsUpTo(S, n) == UNION {[1..k -> S] : k \in 0..n}

KqlValues == {StrVal(<<>>), StrVal(<<" ">>), StrVal(<<"x">>)}

EsqlValues == {NullVal, StrVal(<<" ">>), StrVal(<<"x">>), IntVal(7)}

TableSources ==
    UNION {{[i \in 1..Len(ks) |-> <<ks[i], vs[i]>>] : vs \in [1..Len(ks) -> KqlValues]} :
              ks \in FieldLists}

TableHits == {Hit(<<"1">>, <<"i">>, s) : s \in TableSources}

\* cell texts around the least and the greatest column width
LongCells == {Fill(n) : n \in {min_width - 3, min_width - 2, max_width - 3, MaxCell}}

\* two documents with one field each, of long values
LongHitLists ==
    {<<Hit(<<"1">>, <<"i">>, <<<<<<"a">>, StrVal(c1)>>>>),
       Hit(<<"2">>, <<"i">>, <<<<<<"a">>, StrVal(c2)>>>>)>> : c1, c2 \in LongCells}

TableKqlResponses ==
    {KqlResponse(h, Total("dict", Len(h))) : h \in SeqsUpTo(TableHits, MaxHits)}
        \cup {KqlResponse(<<>>, Total("absent", 0))}
        \cup {KqlResponse(h, Total("dict", Len(h))) : h \in LongHitLists}
        \cup {KqlResponse(<<Hit(<<"1">>, <<"i">>, WideSource(n)), Hit(<<"2">>, <<"i">>, s)>>,
                          Total("scalar", MaxTotal)) :
                 n \in (MaxFields - 1)..MaxFields, s \in {WideSource(1), WideSource(MaxFields)}}

TableEsqlResponses ==
    UNION {{EsqlResponse(ks, vals) :
               vals \in SeqsUpTo([1..Len(ks) -> EsqlValues], MaxHits)} :
              ks \in {fl \in FieldLists : S_id \notin Range(fl)}}
        \cup SessionEsqlResponses
        \cup {EsqlResponse(<<h, <<"b">>>>, <<<<StrVal(c), IntVal(7)>>>>) : h, c \in LongCells}
        \cup {EsqlResponse([i \in 1..(MaxFields + 2) |-> FieldName(i)],
                            <<[i \in 1..(MaxFields + 2) |-> IntVal(i)]>>)}

InitTable ==
    /\ query_text = <<>>
    /\ current_from = 0
    /\ status_bar = StatusConnected
    /\ headers = <<>>
    /\ rows = <<>>
    /\ total_hits = 0
    /\ hscroll_pos = 0
    /\ list_walker = <<>>
    /\ info_text = <<NoResults>>
    /\ \/ esql_radio = TRUE /\ response \in TableEsqlResponses
       \/ esql_radio = FALSE /\ response \in TableKqlResponses
    /\ sent = <<>>
    /\ key = "none"
    /\ running = TRUE
    /\ now = SessionStart
    /\ current_preset = DEFAULT_PRESET
    /\ resolved_range = Unresolved
    /\ buttons = InitialButtons
    /\ search_in_progress = "unset"
    /\ cluster = "small"

\* display_results(response, query_type) on the fresh table
DisplayFirst ==
    /\ running
    /\ info_text = <<NoResults>>
    /\ key' = "display"
    /\ DisplayResults(response, QueryType)
    /\ UNCHANGED <<query_text, esql_radio, current_from, status_bar, response, sent, running>>
    /\ UNCHANGED <<timeVars, search_in_progress, cluster>>

NextTable ==
    \/ DisplayFirst
    \/ ScrollRight
    \/ ScrollLeft

SpecTable == InitTable /\ [][NextTable]_vars

(***************************************************************************)
(* The time range and the client on their own: the clock advances, a time  *)
(* range is resolved for some name, and the client is called once with a   *)
(* query text and that range or none.                                      *)
(***************************************************************************)
\* names asked of get_time_range that are no presets
UnknownPresets == {"Last 2 hours", ""}

\* ES|QL texts: with and without a WHERE stage, with FROM in either case, with
\* several stages, padded, without FROM, and with the letters of a keyword
\* inside a name
EsqlTexts ==
    {<<"F", "R", "O", "M", " ", "l", "o", "g", "s", " ", "|", " ", "L", "I", "M", "I", "T", " ", "1", "0">>,
     <<"F", "R", "O", "M", " ", "l", "o", "g", "s">>,
     <<"f", "r", "o", "m", " ", "l", "o", "g", "s", " ", "|", " ", "l", "i", "m", "i", "t", " ", "1", "0">>,
     <<" ", " ", "F", "R", "O", "M", " ", "l", "o", "g", "s", " ", " ", "|", " ", " ", "K", "E", "E", "P", " ", "a", " ", "|", " ", "L", "I", "M", "I", "T", " ", "1", "0", " ">>,
     <<"F", "R", "O", "M", " ", "l", "o", "g", "s", " ", "|", " ", "W", "H", "E", "R", "E", " ", "s", "t", "a", "t", "u", "s", " ", ">", " ", "2", "0", "0">>,
     <<"F", "R", "O", "M", " ", "l", "o", "g", "s", " ", "|", " ", "w", "h", "e", "r", "e", " ", "a", " ", ">", " ", "1", " ", "|", " ", "L", "I", "M", "I", "T", " ", "1", "0">>,
     <<"F", "R", "O", "M", " ", "l", "o", "g", "s", " ", "|", " ", "W", "H", "E", "R", "E", " ", "a", " ", ">", " ", "1", " ", "O", "R", " ", "b", " ", ">", " ", "1">>,
     <<"F", "R", "O", "M", " ", "l", "o", "g", "s", " ", "|", " ", " ", "W", "H", "E", "R", "E", " ", " ", " ", "s", "t", "a", "t", "u", "s", " ", ">", " ", "2", "0", "0", " ", " ">>,
     <<"S", "H", "O", "W", " ", "I", "N", "F", "O">>,
     <<"R", "O", "W", " ", "a", " ", "=", " ", "1">>,
     <<>>,
     <<"F", "R", "O", "M", " ", "l", "o", "g", "s", " ", "|", " ", "K", "E", "E", "P", " ", "s", "o", "m", "e", "w", "h", "e", "r", "e">>,
     <<"F", "R", "O", "M", " ", "s", "o", "m", "e", "w", "h", "e", "r", "e", " ", "|", " ", "W", "H", "E", "R", "E", " ", "a", " ", ">", " ", "1">>,
     <<"R", "O", "W", " ", "f", "r", "o", "m", "a", "g", "e", " ", "=", " ", "1">>,
     <<" ", "s", "h", "o", "w", " ", "i", "n", "f", "o", " ">>}

InitClient ==
    /\ query_text = <<>>
    /\ esql_radio = TRUE
    /\ current_from = 0
    /\ status_bar = StatusConnected
    /\ headers = <<>>
    /\ rows = <<>>
    /\ total_hits = 0
    /\ hscroll_pos = 0
    /\ list_walker = <<>>
    /\ info_text = <<NoResults>>
    /\ response = NoResponse
    /\ sent = <<>>
    /\ key = "none"
    /\ running = TRUE
    /\ now \in Instants
    /\ current_preset = DEFAULT_PRESET
    /\ resolved_range = Unresolved
    /\ buttons = InitialButtons
    /\ search_in_progress = "unset"
    /\ cluster = "small"

\* time passes before the call: datetime.utcnow() reads a later instant
Tick ==
    /\ sent = <<>>
    /\ \E t \in Instants : Before(now, t) /\ now' = t
    /\ key' = "tick"
    /\ UNCHANGED <<query_text, esql_radio, current_from, status_bar, response, sent, running>>
    /\ UNCHANGED <<tableVars, current_preset, resolved_range, buttons, search_in_progress, cluster>>

\* TimeRange.get_time_range(preset), before the call
GetTimeRange ==
    /\ sent = <<>>
    /\ \E preset \in Range(Keys(PRESETS)) \cup UnknownPresets :
          LET range == get_time_range(preset, now)
          IN resolved_range' = [preset |-> preset,
                                start_time |-> range[1], end_time |-> range[2]]
    /\ key' = "get_time_range"
    /\ UNCHANGED <<query_text, esql_radio, current_from, status_bar, response, sent, running>>
    /\ UNCHANGED <<tableVars, now, current_preset, buttons, search_in_progress, cluster>>

\* the values of the argument time_range: None, or the range resolved last
CallRanges ==
    {None} \cup (IF resolved_range = Unresolved THEN {}
                 ELSE {<<resolved_range.start_time, resolved_range.end_time>>})

\* ESClient.search_kql(query, size, from_, time_range)
SearchKql ==
    /\ sent = <<>>
    /\ \E query \in Texts, offset \in {0, default_size}, range \in CallRanges :
          sent' = <<KqlRequest(query, offset, default_size, range)>>
    /\ response' \in {KqlResponse(<<>>, Total("absent", 0))} \cup SessionFailures("KQL")
    /\ key' = "search_kql"
    /\ UNCHANGED <<query_text, esql_radio, current_from, status_bar, running>>
    /\ UNCHANGED <<tableVars, timeVars, search_in_progress, cluster>>

\* ESClient.query_esql(query, time_range)
QueryEsql ==
    /\ sent = <<>>
    /\ \E query \in EsqlTexts, range \in CallRanges :
          sent' = <<EsqlRequest(query, range)>>
    /\ response' \in {EsqlResponse(<<>>, <<>>)} \cup SessionFailures("ESQL")
    /\ key' = "query_esql"
    /\ UNCHANGED <<query_text, esql_radio, current_from, status_bar, running>>
    /\ UNCHANGED <<tableVars, timeVars, search_in_progress, cluster>>

NextClient ==
    \/ Tick
    \/ GetTimeRange
    \/ SearchKql
    \/ QueryEsql

SpecClient == InitClient /\ [][NextClient]_vars

(***************************************************************************)
(* The time range selector in the session, and the passing of time.        *)
(***************************************************************************)
\* RelabelButtons with the other buttons left as they are
RelabelButtonsMarkOnly(btns, preset) ==
    [i \in 1..Len(btns) |->
        IF UnmarkedLabel(btns[i]) = preset THEN Label("> ", preset) ELSE btns[i]]

\* set_preset: "Update button labels"
RelabelButtons(btns, preset) ==
    [i \in 1..Len(btns) |->
        LET label == UnmarkedLabel(btns[i])
        IN IF label = preset THEN Label("> ", preset) ELSE Label("", label)]

\* TimeRangeSelector.set_preset(preset); no on_change callback is connected
set_preset(preset) ==
    IF preset \notin Range(Keys(PRESETS))
    THEN UNCHANGED <<current_preset, buttons>>
    ELSE /\ current_preset' = preset
         /\ buttons' = RelabelButtons(buttons, preset)

\* set_preset called with the name of a preset
SetPreset ==
    /\ running
    /\ key' = "set_preset"
    /\ \E preset \in Range(Keys(PRESETS)) : set_preset(preset)
    /\ sent' = <<>>
    /\ UNCHANGED <<query_text, esql_radio, current_from, status_bar, response, tableVars, running>>
    /\ UNCHANGED <<now, resolved_range, search_in_progress, cluster>>

\* set_preset called with a name that is not in PRESETS
SetUnknownPreset ==
    /\ running
    /\ key' = "set_preset_unknown"
    /\ \E preset \in UnknownPresets : set_preset(preset)
    /\ sent' = <<>>
    /\ UNCHANGED <<query_text, esql_radio, current_from, status_bar, response, tableVars, running>>
    /\ UNCHANGED <<now, resolved_range, search_in_progress, cluster>>

\* _on_button_click: a button of the selector is activated
ClickPreset ==
    /\ running
    /\ key' = "click"
    /\ \E i \in 1..Len(buttons) : set_preset(UnmarkedLabel(buttons[i]))
    /\ sent' = <<>>
    /\ UNCHANGED <<query_text, esql_radio, current_from, status_bar, response, tableVars, running>>
    /\ UNCHANGED <<now, resolved_range, search_in_progress, cluster>>

\* time passes between two keys: datetime.utcnow() reads a later instant
TimePasses ==
    /\ running
    /\ key' = "time"
    /\ \E t \in Instants : Before(now, t) /\ now' = t
    /\ sent' = <<>>
    /\ UNCHANGED <<query_text, esql_radio, current_from, status_bar, response, tableVars, running>>
    /\ UNCHANGED <<current_preset, buttons, resolved_range, search_in_progress, cluster>>

(***************************************************************************)
(* Submissions over time: a query is in the buffer, time passes and        *)
(* presets are selected.                                                   *)
(***************************************************************************)
InitSubmit ==
    /\ query_text = <<"a">>
    /\ esql_radio = TRUE
    /\ current_from = 0
    /\ status_bar = StatusConnected
    /\ headers = <<>>
    /\ rows = <<>>
    /\ total_hits = 0
    /\ hscroll_pos = 0
    /\ list_walker = <<>>
    /\ info_text = <<NoResults>>
    /\ response = NoResponse
    /\ sent = <<>>
    /\ key = "none"
    /\ running = TRUE
    /\ now = SessionStart
    /\ current_preset = DEFAULT_PRESET
    /\ resolved_range = Unresolved
    /\ buttons = InitialButtons
    /\ search_in_progress = "unset"
    /\ cluster = "quiet"

NextSubmit ==
    \/ Enter
    \/ SelectType
    \/ SetPreset
    \/ SetUnknownPreset
    \/ ClickPreset
    \/ TimePasses

SpecSubmit == InitSubmit /\ [][NextSubmit]_vars

(***************************************************************************)
(* Submissions to a cluster in trouble.                                    *)
(***************************************************************************)
InitTrouble ==
    /\ query_text = <<>>
    /\ esql_radio = TRUE
    /\ current_from = 0
    /\ status_bar = StatusConnected
    /\ headers = <<>>
    /\ rows = <<>>
    /\ total_hits = 0
    /\ hscroll_pos = 0
    /\ list_walker = <<>>
    /\ info_text = <<NoResults>>
    /\ response = NoResponse
    /\ sent = <<>>
    /\ key = "none"
    /\ running = TRUE
    /\ now = SessionStart
    /\ current_preset = DEFAULT_PRESET
    /\ resolved_range = Unresolved
    /\ buttons = InitialButtons
    /\ search_in_progress = "unset"
    /\ cluster = "trouble"

NextTrouble ==
    \/ EditText
    \/ SelectType
    \/ Enter

SpecTrouble == InitTrouble /\ [][NextTrouble]_vars

(***************************************************************************)
(* Paging over a cluster that holds many documents.                        *)
(***************************************************************************)
InitPaging ==
    /\ query_text = <<>>
    /\ esql_radio = TRUE
    /\ current_from = 0
    /\ status_bar = StatusConnected
    /\ headers = <<>>
    /\ rows = <<>>
    /\ total_hits = 0
    /\ hscroll_pos = 0
    /\ list_walker = <<>>
    /\ info_text = <<NoResults>>
    /\ response = NoResponse
    /\ sent = <<>>
    /\ key = "none"
    /\ running = TRUE
    /\ now = SessionStart
    /\ current_preset = DEFAULT_PRESET
    /\ resolved_range = Unresolved
    /\ buttons = InitialButtons
    /\ search_in_progress = "unset"
    /\ cluster = "large"

NextPaging ==
    \/ EditText
    \/ SelectType
    \/ Enter
    \/ PressN
    \/ PressP

SpecPaging == InitPaging /\ [][NextPaging]_vars

(***************************************************************************)
(* Properties of the session: paging.                                      *)
(***************************************************************************)
SubmitKeys == {"enter", "n", "p"}

\* the step handled key k and issued exactly one backend request
SentOne == Len(sent') = 1

\* C1: when 'n' is accepted (current_from + current_size < total_hits, query
\* text non-empty, KQL selected), the search request of that step carries
\* from = old current_from + current_size and current_from ends at that value.
C1_NextPageAdvances ==
    [][(/\ key' = "n"
        /\ current_from + current_size < total_hits
        /\ query_text # <<>>
        /\ ~esql_radio)
       => (/\ SentOne
           /\ sent'[1].from_ = current_from + current_size
           /\ current_from' = current_from + current_size)]_vars

\* C2: when 'p' is accepted (current_from > 0, query text non-empty, KQL
\* selected), current_from becomes max(0, old current_from - current_size) and
\* the search request of that step carries exactly that offset.
C2_PreviousPageClamps ==
    [][(/\ key' = "p"
        /\ current_from > 0
        /\ query_text # <<>>
        /\ ~esql_radio)
       => (/\ SentOne
           /\ sent'[1].from_ = Max(0, current_from - current_size)
           /\ current_from' = Max(0, current_from - current_size))]_vars

\* C3: 'n' with current_from + current_size >= total_hits and 'p' with
\* current_from = 0 change no session state, no table state and no status
\* text, and issue no backend request.
C3_PagingNoOp ==
    [][(\/ key' = "n" /\ current_from + current_size >= total_hits
        \/ key' = "p" /\ current_from = 0)
       => (/\ sent' = <<>>
           /\ UNCHANGED <<query_text, esql_radio, current_from, status_bar,
                          tableVars, response, running>>)]_vars

\* C3 witness: 'n' was pressed on the last page exactly at the boundary
\* current_from + current_size = total_hits, after a search that found hits.
C3_Witness ==
    /\ key = "n"
    /\ sent = <<>>
    /\ current_from = 0
    /\ total_hits = current_from + current_size
    /\ rows # <<>>

\* C4: a submission of a query text that strips to nothing, by Enter or by the
\* re-submission of the 'n' and 'p' keys, issues no backend request and leaves
\* the status line unchanged.
C4_EmptyQueryNeverSent ==
    [][(key' \in SubmitKeys /\ Strip(query_text) = <<>>)
       => (sent' = <<>> /\ status_bar' = status_bar)]_vars

(***************************************************************************)
(* Properties of the horizontal viewport.                                  *)
(***************************************************************************)
\* C5: in every reachable state 0 <= hscroll_pos <= max(0, len(headers) - 6).
C5_OffsetInRange ==
    /\ hscroll_pos >= 0
    /\ hscroll_pos <= Max(0, Len(headers) - 6)

\* C5 witness: the table is scrolled to its last window, past the first one.
C5_Witness ==
    /\ hscroll_pos > 1
    /\ hscroll_pos = Len(headers) - 6
    /\ key = "right"

\* C6: 'right' adds exactly 1 to hscroll_pos when hscroll_pos < max(0,
\* len(headers) - 6) and otherwise changes nothing; 'left' subtracts exactly 1
\* when hscroll_pos > 0 and otherwise changes nothing; neither changes
\* headers, rows, total_hits or current_from, ends the session, touches the
\* status line or issues a backend request.
C6_ScrollStep ==
    [][/\ key' = "right" =>
            IF hscroll_pos < Max(0, Len(headers) - 6)
            THEN hscroll_pos' = hscroll_pos + 1
            ELSE UNCHANGED tableVars
       /\ key' = "left" =>
            IF hscroll_pos > 0
            THEN hscroll_pos' = hscroll_pos - 1
            ELSE UNCHANGED tableVars
       /\ key' \in {"right", "left"} =>
            /\ sent' = <<>>
            /\ UNCHANGED <<headers, rows, total_hits, current_from, status_bar,
                           query_text, esql_radio, response, running>>]_vars

\* C6 witness: a 'left' key moved the window from the third column back to
\* the second ('left' leaves no table at offset 1 unmoved).
C6_Witness ==
    /\ key = "left"
    /\ hscroll_pos = 1
    /\ Len(headers) > 7
    /\ list_walker # <<>>

\* the last backend call was answered, and with no results
AnsweredEmpty ==
    \/ response.kind = "kql" /\ response.hits = <<>>
    \/ response.kind = "esql" /\ (response.columns = <<>> \/ response.values = <<>>)

\* C7: after every submission the backend answers successfully, with or
\* without results, hscroll_pos = 0.
C7_ResetOnInstall ==
    (key \in SubmitKeys /\ sent # <<>> /\ response.kind \in {"kql", "esql"})
        => hscroll_pos = 0

\* C8: after a successful query whose response contains no results the held
\* table has zero columns and zero rows, and while the caption reads "No
\* results found" no row is on screen.
C8_EmptyResultEmptiesTable ==
    /\ (response.kind \in {"kql", "esql"} /\ AnsweredEmpty)
           => (headers = <<>> /\ rows = <<>>)
    /\ info_text = <<NoResultsFound>> => list_walker = <<>>

(***************************************************************************)
(* Properties of the normalised table.                                     *)
(***************************************************************************)
MetaFields == {S_id, S_index}

\* the response of the state has been displayed: the caption of a fresh
\* table is gone
Displayed == info_text # <<NoResults>>

\* C9: every row of the held table has exactly as many cells as the table has
\* columns, after elision, on the KQL path and on the ESQL path.
C9_RowsMatchColumns ==
    \A r \in 1..Len(rows) : Len(rows[r]) = Len(headers)

\* C9 witness: a table of two rows that lost a column to elision.
C9_Witness ==
    /\ Displayed
    /\ Len(rows) = 2
    /\ \/ response.kind = "kql" /\ Len(headers) < Len(KqlHeaders(response.hits))
       \/ response.kind = "esql" /\ Len(headers) < Len(response.columns)
    /\ Len(headers) > 1

\* the cell texts a hit may show: its id, its index, the empty cell, and its
\* values of the fields in the set fields
OwnCells(hit, fields) ==
    {PyStr(hit.id), PyStr(hit.index), <<>>}
        \cup {PyStr(hit.source[k][2]) :
                 k \in {j \in 1..Len(hit.source) : hit.source[j][1] \in fields}}

\* C10: the columns of a KQL table are fields of the first hit (or _id,
\* _index); a value a hit has only under a field the first hit lacks is in no
\* cell of its row; and the cell of a hit under a column whose field the hit
\* lacks is empty.
C10_FirstHitColumns ==
    (Displayed /\ response.kind = "kql" /\ response.hits # <<>>) =>
        LET hits == response.hits
            first == Range(Keys(hits[1].source))
        IN /\ Range(headers) \subseteq MetaFields \cup first
           /\ Len(rows) = Len(hits)
           /\ \A i \in 1..Len(rows) : \A k \in 1..Len(hits[i].source) :
                  (/\ hits[i].source[k][1] \notin first
                   /\ PyStr(hits[i].source[k][2]) \notin OwnCells(hits[i], first))
                      => PyStr(hits[i].source[k][2]) \notin Range(rows[i])
           /\ \A i \in 1..Len(rows) : \A c \in 1..Len(headers) :
                  (/\ headers[c] \notin MetaFields
                   /\ headers[c] \notin Range(Keys(hits[i].source)))
                      => (c <= Len(rows[i]) /\ rows[i][c] = <<>>)

\* the table of the response before elision
Unfiltered ==
    IF response.kind = "kql" /\ response.hits # <<>>
    THEN [headers |-> KqlHeaders(response.hits),
          rows |-> KqlRows(response.hits, KqlHeaders(response.hits))]
    ELSE IF response.kind = "kql" THEN [headers |-> <<>>, rows |-> <<>>]
    ELSE [headers |-> EsqlHeaders(response.columns), rows |-> EsqlRows(response.values)]

\* C11: on the KQL path the columns before elision are _id, then _index, then
\* the fields of the first hit's source in the order the source lists them.
C11_MetaColumnsFirst ==
    (Displayed /\ response.kind = "kql" /\ response.hits # <<>>) =>
        LET hdrs == Unfiltered.headers
            own == SelectSeq(Keys(response.hits[1].source), LAMBDA k : k \notin MetaFields)
        IN hdrs = <<S_id, S_index>> \o own

\* C12: elision drops exactly the columns whose cell is empty after trimming
\* in every row, keeps the other columns in order, and takes the same
\* positions out of every row; when every column is empty, or none is, the
\* table is left whole, so a table with columns and rows never ends with no
\* column.
C12_ElisionExact ==
    (Displayed /\ Unfiltered.headers # <<>> /\ Unfiltered.rows # <<>>) =>
        LET h0 == Unfiltered.headers
            r0 == Unfiltered.rows
            n == Len(h0)
            blank(t) == \A i \in 1..Len(t) : IsSpace(t[i])
            empty == {c \in 1..n : \A r \in 1..Len(r0) : blank(r0[r][c])}
            drop == IF empty = 1..n THEN {} ELSE empty
            kept == (1..n) \ drop
            \* the position in the elided table of the kept column c
            at(c) == Cardinality({d \in kept : d <= c})
        IN /\ Len(headers) = Cardinality(kept)
           /\ Len(rows) = Len(r0)
           /\ \A c \in kept : headers[at(c)] = h0[c]
           /\ \A r \in 1..Len(r0) :
                  /\ Len(rows[r]) = Cardinality(kept)
                  /\ \A c \in kept : rows[r][at(c)] = r0[r][c]
           /\ headers # <<>>

\* C12 witness: a displayed table that lost one column and kept another that
\* stands after it.
C12_Witness ==
    /\ Displayed
    /\ Len(rows) = 2
    /\ \E c \in 1..Len(Unfiltered.headers) :
          /\ Unfiltered.headers[c] \notin Range(headers)
          /\ c < Len(Unfiltered.headers)
          /\ Unfiltered.headers[c + 1] \in Range(headers)

(***************************************************************************)
(* Properties of the client and of the time range.                         *)
(***************************************************************************)
\* the text t is empty after trimming
Blank(t) == \A i \in 1..Len(t) : IsSpace(t[i])

\* the range clause the backend encoding of a time range gives
RangeClause(range) ==
    LET enc == to_elasticsearch_format(range[1], range[2])
    IN <<"range", S_timestamp, enc.gte, enc.lte>>

\* C13: a KQL request with blank text and a time range compiles to the range
\* clause alone; with text and a time range, to bool/must of the range clause
\* and the free-text clause; with blank text and no time range, to match_all.
C13_KqlCompile ==
    (sent # <<>> /\ sent[1].op = "search_kql") =>
        LET req == sent[1]
            q == req.body.query
        IN /\ (req.time_range # None /\ Blank(req.query)) => q = RangeClause(req.time_range)
           /\ (req.time_range # None /\ ~Blank(req.query)) =>
                  /\ q[1] = "bool"
                  /\ q[2] = <<"must", <<RangeClause(req.time_range),
                                        <<"query_string", req.query>>>>>>
           /\ (req.time_range = None /\ Blank(req.query)) => q = <<"match_all">>

\* C13 witness: the client compiled a padded text with a time range.
C13_Witness ==
    /\ sent # <<>>
    /\ sent[1].op = "search_kql"
    /\ sent[1].time_range # None
    /\ sent[1].query = <<" ", "a", " ">>
    /\ sent[1].body.query[1] = "bool"

\* the stages of an ES|QL text: its parts between the pipes, trimmed
RECURSIVE Stages(_)
Stages(t) ==
    IF \E i \in 1..Len(t) : t[i] = "|"
    THEN LET p == CHOOSE i \in 1..Len(t) : t[i] = "|" /\ \A j \in 1..(i - 1) : t[j] # "|"
         IN <<Strip(SubSeq(t, 1, p - 1))>> \o Stages(SubSeq(t, p + 1, Len(t)))
    ELSE <<Strip(t)>>

\* the command of a stage: its first word, in upper case
Command(stage) ==
    LET ends == {i \in 1..Len(stage) : IsSpace(stage[i])}
        n == IF ends = {} THEN Len(stage) ELSE (CHOOSE i \in ends : \A j \in ends : i <= j) - 1
    IN [i \in 1..n |-> UpperChar(stage[i])]

\* the stages of t whose command is cmd
StagesOf(t, cmd) == {i \in 1..Len(Stages(t)) : Command(Stages(t)[i]) = cmd}

\* <field> >= "<start>" AND <field> <= "<end>" in the backend encoding
TimePredicate(range) ==
    LET enc == to_elasticsearch_format(range[1], range[2])
    IN S_timestamp \o <<" ", ">", "=", " ", "\"">> \o enc.gte \o <<"\"", " ", "A", "N", "D", " ">>
           \o S_timestamp \o <<" ", "<", "=", " ", "\"">> \o enc.lte \o <<"\"">>

\* the client was called with an ES|QL text and a time range
EsqlCompiled == sent # <<>> /\ sent[1].op = "query_esql" /\ sent[1].time_range # None

\* C14: for an ES|QL query without a WHERE stage and with a FROM stage, the
\* stage WHERE <field> >= "<start>" AND <field> <= "<end>" is put right after
\* the FROM stage (before the first pipe that follows FROM, or at the end), the
\* other stages are kept in order; FROM logs | LIMIT 10 with the range
\* 2024-01-01T00:00:00.000Z to 2024-01-01T01:00:00.000Z becomes exactly the
\* text of the example.
C14_WhereStageInserted ==
    (EsqlCompiled /\ StagesOf(sent[1].query, S_WHERE) = {}
                  /\ StagesOf(sent[1].query, S_FROM) # {}) =>
        LET req == sent[1]
            st == Stages(req.query)
            k == CHOOSE i \in StagesOf(req.query, S_FROM) :
                     \A j \in StagesOf(req.query, S_FROM) : i <= j
            stage == S_WHERE \o <<" ">> \o TimePredicate(req.time_range)
        IN /\ Stages(req.body.query) = SubSeq(st, 1, k) \o <<stage>> \o SubSeq(st, k + 1, Len(st))
           /\ (/\ req.query = <<"F", "R", "O", "M", " ", "l", "o", "g", "s", " ", "|", " ", "L", "I", "M", "I", "T", " ", "1", "0">>
               /\ req.time_range = <<Instant(19723, 0, 0), Instant(19723, 3600, 0)>>)
                  => req.body.query =
                         <<"F", "R", "O", "M", " ", "l", "o", "g", "s", " ", "|", " ", "W", "H", "E", "R", "E", " ", "@", "t", "i", "m", "e", "s", "t", "a", "m", "p", " ", ">", "=", " ", "\"", "2", "0", "2", "4", "-", "0", "1", "-", "0", "1", "T", "0", "0", ":", "0", "0", ":", "0", "0", ".", "0", "0", "0", "Z", "\"", " ", "A", "N", "D", " ", "@", "t", "i", "m", "e", "s", "t", "a", "m", "p", " ", "<", "=", " ", "\"", "2", "0", "2", "4", "-", "0", "1", "-", "0", "1", "T", "0", "1", ":", "0", "0", ":", "0", "0", ".", "0", "0", "0", "Z", "\"", " ", "|", " ", "L", "I", "M", "I", "T", " ", "1", "0">>

\* C15: for an ES|QL query with a WHERE stage (in either case), the time
\* condition is put right after the first WHERE keyword, the original
\* condition follows it after AND, and every other stage is kept.
C15_WhereStageExtended ==
    (EsqlCompiled /\ StagesOf(sent[1].query, S_WHERE) # {}) =>
        LET req == sent[1]
            st == Stages(req.query)
            out == Stages(req.body.query)
            k == CHOOSE i \in StagesOf(req.query, S_WHERE) :
                     \A j \in StagesOf(req.query, S_WHERE) : i <= j
        IN /\ Len(out) = Len(st)
           /\ \A i \in 1..Len(st) : i # k => out[i] = st[i]
           /\ out[k] = SubSeq(st[k], 1, 5) \o <<" ">> \o TimePredicate(req.time_range)
                           \o <<" ", "A", "N", "D", " ">> \o Strip(SubSeq(st[k], 6, Len(st[k])))

\* the letters of word stand somewhere in t, in either case
Occurs(word, t) ==
    \E p \in 0..(Len(t) - Len(word)) : \A j \in 1..Len(word) : UpperChar(t[p + j]) = word[j]

\* C16: an ES|QL query in which neither a FROM nor a WHERE stage is found is
\* sent as it was submitted, with or without a time range.
C16_NoAnchorUnmodified ==
    (/\ sent # <<>>
     /\ sent[1].op = "query_esql"
     /\ StagesOf(sent[1].query, S_WHERE) = {}
     /\ StagesOf(sent[1].query, S_FROM) = {})
        => sent[1].body.query = sent[1].query

\* the seconds from instant a to instant b
Elapsed(a, b) == (b.day - a.day) * 86400 + (b.sec - a.sec)

\* C17: resolving a preset gives start before end, end - start the nominal
\* duration of the preset and end the reading of the clock; resolving any
\* other name gives what 'Last 15 minutes' gives.
C17_ResolveExact ==
    [][key' = "get_time_range" =>
          LET r == resolved_range'
              nominal == [p \in Range(Keys(PRESETS)) |->
                  CASE p = "Last 15 minutes" -> 15 * 60
                    [] p = "Last 30 minutes" -> 30 * 60
                    [] p = "Last 1 hour" -> 60 * 60
                    [] p = "Last 3 hours" -> 3 * 60 * 60
                    [] p = "Last 6 hours" -> 6 * 60 * 60
                    [] p = "Last 12 hours" -> 12 * 60 * 60
                    [] p = "Last 24 hours" -> 24 * 60 * 60
                    [] p = "Last 7 days" -> 7 * 24 * 60 * 60
                    [] p = "Last 30 days" -> 30 * 24 * 60 * 60]
              d == IF r.preset \in DOMAIN nominal THEN nominal[r.preset] ELSE 15 * 60
          IN /\ Before(r.start_time, r.end_time)
             /\ Elapsed(r.start_time, r.end_time) = d
             /\ r.start_time.us = r.end_time.us
             /\ r.start_time.sec \in 0..86399
             /\ r.end_time = now']_vars

\* C17 witness: a name that is no preset was resolved, and the range starts
\* on the day before the day of the clock.
C17_Witness ==
    /\ key = "get_time_range"
    /\ resolved_range.preset = "Last 2 hours"
    /\ resolved_range.start_time.day < resolved_range.end_time.day

\* the encoding of instant t to the millisecond, its sub-millisecond part cut
EncodesTruncated(text, t) ==
    LET ms == t.us \div 1000
    IN /\ Len(text) = 24
       /\ text[24] = "Z"
       /\ text[20] = "."
       /\ SubSeq(text, 21, 23) =
              <<DigitChar(ms \div 100), DigitChar((ms \div 10) % 10), DigitChar(ms % 10)>>
       /\ SubSeq(text, 1, 19) = SubSeq(strftime(t), 1, 19)

\* text t holds the text sub
Holds(t, sub) == \E p \in 0..(Len(t) - Len(sub)) : SubSeq(t, p + 1, p + Len(sub)) = sub

\* C18: the backend encoding of an instant has millisecond precision, the
\* microseconds cut to their first three digits and never rounded, and ends
\* in Z; the range clause of a KQL request and the time predicate of an ES|QL
\* request carry their instants in this encoding.
C18_EncodingTruncates ==
    /\ resolved_range # Unresolved =>
          LET enc == to_elasticsearch_format(resolved_range.start_time, resolved_range.end_time)
          IN /\ EncodesTruncated(enc.gte, resolved_range.start_time)
             /\ EncodesTruncated(enc.lte, resolved_range.end_time)
    /\ (sent # <<>> /\ sent[1].time_range # None) =>
          LET req == sent[1]
              enc == to_elasticsearch_format(req.time_range[1], req.time_range[2])
              q == req.body.query
          IN IF req.op = "search_kql"
             THEN LET clause == IF q[1] = "bool" THEN q[2][2][1] ELSE q
                  IN clause[1] = "range" /\ clause[3] = enc.gte /\ clause[4] = enc.lte
             ELSE (Occurs(S_WHERE, req.query) \/ Occurs(S_FROM, req.query)) =>
                      /\ Holds(q, <<">", "=", " ", "\"">> \o enc.gte \o <<"\"">>)
                      /\ Holds(q, <<"<", "=", " ", "\"">> \o enc.lte \o <<"\"">>)

\* C18 witness: a KQL request was compiled with a range that ends 999999
\* microseconds into a second.
C18_Witness ==
    /\ sent # <<>>
    /\ sent[1].op = "search_kql"
    /\ sent[1].time_range # None
    /\ sent[1].time_range[2].us = 999999
    /\ sent[1].time_range[1].us = 999999

(***************************************************************************)
(* Properties of the session: failures.                                    *)
(***************************************************************************)
\* C19: a failure of the backend during a submission ends in an error status
\* that shows its message, the application keeps running, and a submission
\* after a failure that the backend answers ends in the success status with
\* the answer displayed.
C19_FailuresCaught ==
    [][/\ (Len(sent') = 1 /\ response'.kind = "error") =>
              /\ running'
              /\ status_bar'.attr = "error"
              /\ status_bar'.kind \in {"Query error", "Error"}
              /\ status_bar'.msg # <<>>
              /\ SubSeq(status_bar'.msg, 1, 10) = SubSeq(response'.msg, 1, 10)
       /\ (status_bar.attr = "error" /\ Len(sent') = 1 /\ response'.kind # "error") =>
              /\ running'
              /\ status_bar'.attr = "status"
              /\ status_bar'.kind = "query executed successfully"
              /\ status_bar'.hits = total_hits'
              /\ LET n == IF response'.kind = "kql" THEN Len(response'.hits)
                          ELSE IF response'.columns = <<>> THEN 0
                          ELSE Len(response'.values)
                 IN IF n = 0 THEN info_text' = <<NoResultsFound>>
                    ELSE Len(rows') = n /\ hscroll_pos' = 0 /\ list_walker' # <<>>]_vars

\* C19 witness: a failure was caught and the application runs on.
C19_Witness ==
    /\ Len(sent) = 1
    /\ response.kind = "error"
    /\ response.exc = "RuntimeError"
    /\ status_bar.attr = "error"
    /\ running

\* C20: the error message of the status line has at most 120 characters: a
\* message of up to 120 characters is shown whole, a longer one as its first
\* 117 characters and three dots.
C20_ErrorMessageCut ==
    status_bar.attr = "error" =>
        LET m == response.msg
        IN /\ response.kind = "error"
           /\ Len(status_bar.msg) <= 120
           /\ Len(m) <= 120 => status_bar.msg = m
           /\ Len(m) > 120 =>
                  status_bar.msg = [i \in 1..120 |-> IF i <= 117 THEN m[i] ELSE "."]

\* C20 witness: a message of more than 120 characters is on the status line,
\* cut to 120.
C20_Witness ==
    /\ status_bar.attr = "error"
    /\ Len(response.msg) > 120
    /\ Len(status_bar.msg) = 120

(***************************************************************************)
(* Properties of the session: the gateway timeout of ES|QL.                *)
(***************************************************************************)
\* the failure on the status line came from an HTTP response of this status
HttpFailure(status) ==
    /\ response.kind = "error"
    /\ response.cause # <<>>
    /\ response.cause[1].exc = "HTTPError"
    /\ response.cause[1].status = status

\* C21: after an ES|QL submission that the backend answers with HTTP 504 the
\* application keeps running and the status line shows the remediation
\* message with each of its suggestions: reduce the time range, add a LIMIT
\* clause, use KQL instead.
C21_RemediationShown ==
    (status_bar.attr = "error" /\ HttpFailure(504)) =>
        /\ running
        /\ Holds(status_bar.msg, <<"5", "0", "4", " ", "G", "a", "t", "e", "w", "a", "y", " ", "T", "i", "m", "e", "o", "u", "t">>)
        /\ Holds(status_bar.msg, <<"t", "i", "m", "e", " ", "r", "a", "n", "g", "e">>)
        /\ Holds(status_bar.msg, <<"L", "I", "M", "I", "T">>)
        /\ Holds(status_bar.msg, <<"K", "Q", "L">>)

(***************************************************************************)
(* Properties of the session: one query at a time.                         *)
(***************************************************************************)
\* the state of the session that the status line shows
SessionState ==
    IF status_bar.kind = "Connected to Elasticsearch" THEN "idle"
    ELSE IF status_bar.kind = "Executing" THEN "submitting"
    ELSE IF status_bar.kind = "query executed successfully" THEN "success"
    ELSE IF status_bar.kind \in {"Query error", "Error"} THEN "failed"
    ELSE "unknown"

\* C22: the session is in one of idle, submitting, success and failed; the
\* handling of a key calls the backend at most once, and when a submission
\* has been handled the session is in success or in failed, failed exactly
\* when the backend failed, and the in-progress flag is false; between
\* submissions the flag is never true and the session never in submitting.
C22_OneQueryAtATime ==
    [][/\ SessionState' \in {"idle", "submitting", "success", "failed"}
       /\ Len(sent') <= 1
       /\ Len(sent') = 1 =>
              /\ SessionState' = (IF response'.kind = "error" THEN "failed" ELSE "success")
              /\ search_in_progress' = "False"
       /\ Len(sent') = 0 =>
              /\ SessionState' = SessionState
              /\ search_in_progress' = search_in_progress
       /\ search_in_progress' # "True"
       /\ SessionState' # "submitting"]_vars

\* C22 witness: a submission that failed has been handled; the session is in
\* failed and the flag is false.
C22_Witness ==
    /\ Len(sent) = 1
    /\ response.kind = "error"
    /\ SessionState = "failed"
    /\ search_in_progress = "False"
    /\ running

(***************************************************************************)
(* Properties of the session: what the paging keys resubmit.               *)
(***************************************************************************)
\* the client operation of the submission that response answered
AnsweredOp == IF response.kind = "kql" THEN "search_kql" ELSE "query_esql"

\* C23: the query that n or p resubmits is the query submitted last, its text
\* and its language, whatever has been done to the input buffer and the
\* language selection since: a request that n or p issues right after a
\* submission repeats the text and the language of that submission, and after
\* a submission that the backend answered, the request that n or p issues is
\* in the language of that submission.
C23_ResubmitsLastQuery ==
    [][(key' \in {"n", "p"} /\ Len(sent') = 1) =>
           /\ Len(sent) = 1 =>
                  /\ sent'[1].query = sent[1].query
                  /\ sent'[1].op = sent[1].op
           /\ response.kind \in {"kql", "esql"} => sent'[1].op = AnsweredOp]_vars

(***************************************************************************)
(* Properties of the session: paging and ES|QL.                            *)
(***************************************************************************)
\* C24: while the rows on screen are those of an ES|QL answer, however many,
\* the keys n and p leave current_from as it is and issue no request.
C24_NoPagingOnEsql ==
    [][(key' \in {"n", "p"} /\ response.kind = "esql"
            /\ response.columns # <<>> /\ response.values # <<>>) =>
           /\ current_from' = current_from
           /\ sent' = <<>>]_vars

(***************************************************************************)
(* Properties of the session: the time window of a submission.             *)
(***************************************************************************)
\* the nominal duration of a preset, in seconds
NominalSeconds(p) ==
    CASE p = "Last 15 minutes" -> 15 * 60
      [] p = "Last 30 minutes" -> 30 * 60
      [] p = "Last 1 hour" -> 60 * 60
      [] p = "Last 3 hours" -> 3 * 60 * 60
      [] p = "Last 6 hours" -> 6 * 60 * 60
      [] p = "Last 12 hours" -> 12 * 60 * 60
      [] p = "Last 24 hours" -> 24 * 60 * 60
      [] p = "Last 7 days" -> 7 * 24 * 60 * 60
      [] p = "Last 30 days" -> 30 * 24 * 60 * 60

\* C25: the time window handed to the backend call of a submission ends at
\* the reading of the clock at that submission and starts the duration of the
\* preset current at that moment before it, whatever the clock read and
\* whichever preset was current at earlier submissions; a KQL request carries
\* this window in its range clause.
C25_WindowAtSubmission ==
    [][Len(sent') = 1 =>
           LET r == sent'[1].time_range
           IN /\ r # None
              /\ r[2] = now
              /\ Elapsed(r[1], r[2]) = NominalSeconds(current_preset)
              /\ r[1].us = r[2].us
              /\ sent'[1].op = "search_kql" =>
                     sent'[1].body.query[2][2][1] = RangeClause(r)]_vars

\* C25 witness: a submission made after time has passed and another preset
\* was selected, following an earlier submission with the default preset.
C25_Witness ==
    /\ key = "enter"
    /\ Len(sent) = 1
    /\ now = Instant(20089, 0, 999)
    /\ current_preset = "Last 30 days"
    /\ sent[1].time_range = <<Instant(20059, 0, 999), now>>
    /\ sent[1].op = "search_kql"

(***************************************************************************)
(* Properties of the time range selector.                                  *)
(***************************************************************************)
\* the buttons that carry the marker of the current preset
MarkedButtons == {i \in 1..Len(buttons) : buttons[i][1] = "> "}

\* C26: at any time one preset is current and it is a preset of PRESETS,
\* 'Last 15 minutes' before anything was selected; there is one button per
\* preset, one button carries the marker and it is the button of the current
\* preset; set_preset with a name that is no preset changes nothing.
C26_OneCurrentPreset ==
    /\ [](/\ current_preset \in Range(Keys(PRESETS))
          /\ key = "none" => current_preset = "Last 15 minutes"
          /\ Len(buttons) = Len(PRESETS)
          /\ \A i \in 1..Len(buttons) :
                 /\ buttons[i][2] = Keys(PRESETS)[i]
                 /\ buttons[i][1] \in {"", "> "}
          /\ Cardinality(MarkedButtons) = 1
          /\ \A i \in MarkedButtons : buttons[i][2] = current_preset)
    /\ [][key' = "set_preset_unknown" =>
              /\ current_preset' = current_preset
              /\ buttons' = buttons]_vars

\* C26 witness: another preset was selected, and then set_preset was called
\* with a name that is no preset.
C26_Witness ==
    /\ key = "set_preset_unknown"
    /\ current_preset = "Last 7 days"
    /\ buttons[8] = <<"> ", "Last 7 days">>
    /\ buttons[1] = <<"", "Last 15 minutes">>

(***************************************************************************)
(* Properties of the results table: column widths and cells.               *)
(***************************************************************************)
\* the columns on screen (1-based), left to right
ShownColumns ==
    [i \in 1..(Min(hscroll_pos + 6, Len(headers)) - hscroll_pos) |-> hscroll_pos + i]

\* the lengths of the texts of column c: its header and its cells
TextLengths(c) ==
    {Len(headers[c])} \cup {Len(rows[r][c]) : r \in {q \in 1..Len(rows) : c <= Len(rows[q])}}

\* n brought into 15..100
Clamped(n) == IF n < 15 THEN 15 ELSE IF n > 100 THEN 100 ELSE n

\* C27: the rendered table has one width per column on screen, in column
\* order, and the width of a column is the greatest length among its header
\* and its cells of all rows, plus 3, brought into 15..100.
C27_ColumnWidths ==
    list_walker # <<>> =>
        /\ Len(list_walker[1].cells) = Len(ShownColumns)
        /\ \A i \in 1..Len(ShownColumns) :
               \E m \in TextLengths(ShownColumns[i]) :
                   /\ \A x \in TextLengths(ShownColumns[i]) : x <= m
                   /\ list_walker[1].cells[i].width = Clamped(m + 3)
                   /\ \A r \in 2..Len(list_walker) :
                          i <= Len(list_walker[r].cells) =>
                              list_walker[r].cells[i].width = Clamped(m + 3)

\* C27 witness: a table with a column at the lower limit, and a column whose
\* width comes from a cell of the second row and is cut to the upper limit.
C27_Witness ==
    /\ Len(list_walker) = 3
    /\ list_walker[1].cells[1].width = 15
    /\ \E i \in 1..Len(ShownColumns) :
           /\ Len(rows[1][ShownColumns[i]]) < 97
           /\ Len(rows[2][ShownColumns[i]]) > 97
           /\ list_walker[1].cells[i].width = 100

\* the cell text shows text t: a blank, then t
Shows(cell, t) == Len(cell) > Len(t) /\ cell[1] = " " /\ SubSeq(cell, 2, Len(t) + 1) = t

\* C28: the rendered table shows the columns hscroll_pos .. min(hscroll_pos +
\* 6, n) - 1 of its n columns, each once and in order, which are min(6, n)
\* columns; the header row and every data row carry the left indicator
\* exactly when hscroll_pos > 0 and the right indicator exactly when
\* hscroll_pos + 6 < n.
C28_VisibleColumns ==
    list_walker # <<>> =>
        LET n == Len(headers)
            o == hscroll_pos
            last == IF o + 6 < n THEN o + 6 ELSE n
        IN /\ n > 0
           /\ Len(list_walker) = Len(rows) + 1
           /\ Len(list_walker[1].cells) = last - o
           /\ Len(list_walker[1].cells) = (IF n < 6 THEN n ELSE 6)
           /\ \A i \in 1..(last - o) : Shows(list_walker[1].cells[i].text, headers[o + i])
           /\ \A r \in 1..Len(list_walker) :
                  /\ list_walker[r].left = (o > 0)
                  /\ list_walker[r].right = (o + 6 < n)
           /\ \A r \in 1..Len(rows) :
                  /\ Len(list_walker[r + 1].cells) = last - o
                  /\ \A i \in 1..(last - o) :
                         LET cell == rows[r][o + i]
                             text == list_walker[r + 1].cells[i].text
                         IN \/ Shows(text, cell)
                            \/ /\ Len(cell) > 3
                               /\ text[1] = " "
                               /\ SubSeq(text, 2, 4) = SubSeq(cell, 1, 3)

\* C28 witness: a table of more than seven columns scrolled to its middle,
\* with both indicators.
C28_Witness ==
    /\ list_walker # <<>>
    /\ Len(headers) > 7
    /\ hscroll_pos = 1
    /\ list_walker[1].left
    /\ list_walker[1].right
    /\ Len(list_walker[2].cells) = 6

\* what a cell of text cell shows in a column of width w: the text, or its
\* first w - 6 characters and three dots when it has more than w - 3
ShownText(cell, w) ==
    IF Len(cell) > w - 3
    THEN [k \in 1..(w - 3) |-> IF k <= w - 6 THEN cell[k] ELSE "."]
    ELSE cell

\* C29: a data cell of more than width - 3 characters is rendered as its
\* first width - 6 characters and three dots, a cell of at most width - 3
\* characters as it is; the rendered text is as long as the column is wide:
\* a blank, the text shown, blanks to the end.
C29_CellText ==
    \A r \in 2..Len(list_walker) :
        \A i \in 1..Len(list_walker[r].cells) :
            LET cell == rows[r - 1][hscroll_pos + i]
                w == list_walker[r].cells[i].width
                text == list_walker[r].cells[i].text
                shown == ShownText(cell, w)
            IN /\ Len(text) = w
               /\ \A k \in 1..w :
                      text[k] = (IF k >= 2 /\ k <= Len(shown) + 1 THEN shown[k - 1] ELSE " ")

\* C29 witness: a cell of 98 characters in a column of width 100 is cut to 94
\* characters and three dots, above or below a cell of 97 shown whole.
C29_Witness ==
    /\ Len(list_walker) = 3
    /\ \E i \in 1..Len(list_walker[2].cells) :
           /\ list_walker[2].cells[i].width = 100
           /\ Len(rows[1][hscroll_pos + i]) = 98
           /\ Len(rows[2][hscroll_pos + i]) = 97
           /\ list_walker[2].cells[i].text[95] = "x"
           /\ list_walker[2].cells[i].text[96] = "."
           /\ list_walker[3].cells[i].text[98] = "x"

(***************************************************************************)
(* Properties of the session: the kind of error shown.                     *)
(***************************************************************************)
\* C30: in either language, the status line shows a failure as a query error
\* only when the backend rejected the query with a status of the 4xx class;
\* a lost connection, a timeout and a status of the 5xx class are shown as
\* errors of the generic kind.
C30_QueryErrorOnlyWhenRejected ==
    (status_bar.attr = "error" /\ response.kind = "error" /\ response.cause # <<>>) =>
        LET failure == response.cause[1]
        IN /\ status_bar.kind = "Query error" => failure.status \in 400..499
           /\ (failure.status = 0 \/ failure.status >= 500) => status_bar.kind = "Error"

(***************************************************************************)
(* Properties of the results table: the cells of a KQL table.              *)
(***************************************************************************)
\* C31: in a KQL table the cell of a hit under _id is the hit's id, under
\* _index the hit's index, and under a column named after a source field the
\* text of the hit's value of that field, empty when the hit has no such
\* field, also when the source of the first hit has a field named _id or
\* _index.
C31_CellsUnderTheirColumns ==
    (Displayed /\ response.kind = "kql" /\ response.hits # <<>>) =>
        \A i \in 1..Len(rows) : \A c \in 1..Len(headers) :
            LET hit == response.hits[i]
            IN rows[i][c] =
                   (IF headers[c] = S_id THEN PyStr(hit.id)
                    ELSE IF headers[c] = S_index THEN PyStr(hit.index)
                    ELSE PyStr(DictGet(hit.source, headers[c], StrVal(<<>>))))

(***************************************************************************)
(* Properties of the client: what the rewritten ES|QL condition accepts.   *)
(***************************************************************************)
\* the pieces of t between the occurrences of sep
RECURSIVE Split(_, _)
Split(t, sep) ==
    IF Find(t, sep, 0) = 0 - 1 THEN <<t>>
    ELSE <<Prefix(t, Find(t, sep, 0))>> \o Split(Suffix(t, Find(t, sep, 0) + Len(sep)), sep)

\* the rows of the index: when the row was stamped, relative to the time
\* range of the request, and its values of a, b and status
IndexRows ==
    [when : {"before", "within", "after"}, a : {0, 2}, b : {0, 2}, status : {200, 500}]

\* the comparison atom holds of row, for a request with the time range range
AtomHolds(atom, row, range) ==
    LET enc == to_elasticsearch_format(range[1], range[2])
    IN CASE atom = S_timestamp \o <<" ", ">", "=", " ", "\"">> \o enc.gte \o <<"\"">> ->
                row.when # "before"
         [] atom = S_timestamp \o <<" ", "<", "=", " ", "\"">> \o enc.lte \o <<"\"">> ->
                row.when # "after"
         [] atom = <<"a", " ", ">", " ", "1">> -> row.a > 1
         [] atom = <<"b", " ", ">", " ", "1">> -> row.b > 1
         [] atom = <<"s", "t", "a", "t", "u", "s", " ", ">", " ", "2", "0", "0">> -> row.status > 200
         [] OTHER -> FALSE

\* the condition cond accepts row: AND binds tighter than OR
Accepts(cond, row, range) ==
    \E d \in Range(Split(cond, <<" ", "O", "R", " ">>)) :
        \A atom \in Range(Split(d, <<" ", "A", "N", "D", " ">>)) :
            AtomHolds(Strip(atom), row, range)

\* the condition of a WHERE stage
Condition(stage) == Strip(SubSeq(stage, 6, Len(stage)))

\* C32: for an ES|QL query with a WHERE stage and a time range, the query
\* sent has a WHERE stage, and every row that its WHERE stages accept lies
\* within the time range, whatever the shape of the original condition, a
\* condition with OR at its top level included.
C32_AcceptedRowsInRange ==
    (EsqlCompiled /\ StagesOf(sent[1].query, S_WHERE) # {}) =>
        LET out == sent[1].body.query
        IN /\ StagesOf(out, S_WHERE) # {}
           /\ \A row \in IndexRows :
                  (\A k \in StagesOf(out, S_WHERE) :
                       Accepts(Condition(Stages(out)[k]), row, sent[1].time_range))
                      => row.when = "within"

\* the letters of word stand at offset p of t, in either case
LettersAt(word, t, p) == \A j \in 1..Len(word) : UpperChar(t[p + j]) = word[j]

\* offset p of t is where a stage begins and the word of Len(word) letters
\* there is the whole command of the stage
AtCommand(word, t, p) ==
    /\ \/ \A j \in 1..p : IsSpace(t[j])
       \/ \E i \in 1..p : t[i] = "|" /\ \A j \in (i + 1)..p : IsSpace(t[j])
    /\ p + Len(word) = Len(t) \/ IsSpace(t[p + Len(word) + 1])

\* the letters of word stand in t somewhere else than as the command of a stage
InsideWord(word, t) ==
    \E p \in 0..(Len(t) - Len(word)) : LettersAt(word, t, p) /\ ~AtCommand(word, t, p)

\* C33: only the commands WHERE and FROM are anchors: an ES|QL query without
\* a WHERE stage that holds the letters where or from inside a name is
\* rewritten as if it did not hold them: with a FROM stage, the time stage is
\* put right after the FROM stage and every stage is kept whole; without one,
\* the query is sent as submitted.
C33_OnlyKeywordsAnchor ==
    (/\ EsqlCompiled
     /\ StagesOf(sent[1].query, S_WHERE) = {}
     /\ InsideWord(S_WHERE, sent[1].query) \/ InsideWord(S_FROM, sent[1].query)) =>
        LET req == sent[1]
            st == Stages(req.query)
            from == StagesOf(req.query, S_FROM)
            k == CHOOSE i \in from : \A j \in from : i <= j
            stage == S_WHERE \o <<" ">> \o TimePredicate(req.time_range)
        IN IF from = {} THEN req.body.query = req.query
           ELSE Stages(req.body.query) =
                    SubSeq(st, 1, k) \o <<stage>> \o SubSeq(st, k + 1, Len(st))

(***************************************************************************)
(* Properties of the session: the count of the success status.             *)
(***************************************************************************)
\* C34: after a submission that the backend answered, the success status
\* shows the count of that answer: the total of a search response, the
\* number of value rows of an ES|QL response, 0 when it has none.
C34_StatusCountIsOfThisAnswer ==
    [][(Len(sent') = 1 /\ response'.kind # "error") =>
           /\ status_bar'.kind = "query executed successfully"
           /\ status_bar'.hits = (IF response'.kind = "kql" THEN response'.total.value
                                  ELSE Len(response'.values))]_vars

(***************************************************************************)
(* Properties of the results table: the caption under scrolling.           *)
(***************************************************************************)
\* C35: a horizontal scroll keeps the count part of the caption and its key
\* hint, the hint of ES|QL over ES|QL results and the hint of KQL over KQL
\* results, and sets the column part to Columns o+1 - min(o+6, n) of n for
\* the new offset o and the n columns of the table.
C35_ScrollKeepsCaption ==
    [][(key' \in {"right", "left"} /\ hscroll_pos' # hscroll_pos) =>
           LET o == hscroll_pos'
               n == Len(headers)
           IN /\ Len(info_text) = 3
              /\ Len(info_text') = 3
              /\ info_text'[1] = info_text[1]
              /\ info_text'[2] = ColumnsPart(o + 1, IF o + 6 < n THEN o + 6 ELSE n, n)
              /\ info_text'[3] = info_text[3]
              /\ info_text'[3] = (IF response.kind = "esql" THEN HintEsql ELSE HintKql)]_vars

(***************************************************************************)
(* Properties of the session: what a failed submission leaves alone.       *)
(***************************************************************************)
\* C36: a submission that fails in the call of the backend leaves the results
\* table as it was: headers, rows, total_hits, hscroll_pos, the rendered rows
\* and the caption; of the rest of the session only the status line and
\* current_from may change.
C36_FailureLeavesTable ==
    [][(Len(sent') = 1 /\ response'.kind = "error") =>
           /\ headers' = headers
           /\ rows' = rows
           /\ total_hits' = total_hits
           /\ hscroll_pos' = hscroll_pos
           /\ list_walker' = list_walker
           /\ info_text' = info_text
           /\ query_text' = query_text
           /\ esql_radio' = esql_radio
           /\ current_preset' = current_preset
           /\ buttons' = buttons
           /\ running' = running
           /\ status_bar'.attr = "error"]_vars

\* C36 witness: a submission failed over a table that is on screen, scrolled
\* to the right.
C36_Witness ==
    /\ Len(sent) = 1
    /\ response.kind = "error"
    /\ status_bar.attr = "error"
    /\ list_walker # <<>>
    /\ hscroll_pos > 0
    /\ Len(info_text) = 3

(***************************************************************************)
(* Properties of the session: current_from and the requests.               *)
(***************************************************************************)
\* C37: current_from changes only with a request: a key that issues no
\* request leaves current_from as it is, and after a search request
\* current_from is the offset that the request carried.
C37_OffsetFollowsRequests ==
    [][/\ Len(sent') = 0 => current_from' = current_from
       /\ (Len(sent') = 1 /\ sent'[1].op = "search_kql") =>
              current_from' = sent'[1].from_]_vars

(***************************************************************************)
(* Properties of the results table: when a cell is cut.                    *)
(***************************************************************************)
\* C38: a data cell is cut exactly when its text has more than 97
\* characters; it is then in a column of width 100 and shows its first 94
\* characters and three dots; a cell of at most 97 characters is shown whole,
\* whatever the other cells of its column hold.
C38_CutOnlyBeyondLimit ==
    \A r \in 2..Len(list_walker) :
        \A i \in 1..Len(list_walker[r].cells) :
            LET cell == rows[r - 1][hscroll_pos + i]
                w == list_walker[r].cells[i].width
                text == list_walker[r].cells[i].text
            IN IF Len(cell) > 97
               THEN /\ w = 100
                    /\ SubSeq(text, 2, 95) = SubSeq(cell, 1, 94)
                    /\ SubSeq(text, 96, 100) = <<".", ".", ".", " ", " ">>
               ELSE /\ SubSeq(text, 2, Len(cell) + 1) = cell
                    /\ \A k \in {1} \cup ((Len(cell) + 2)..Len(text)) : text[k] = " "

\* C38 witness: a column of width 100 holds a cell of 98 characters, cut, and
\* a cell of 12 characters, shown whole.
C38_Witness ==
    /\ Len(list_walker) = 3
    /\ \E i \in 1..Len(list_walker[2].cells) :
           /\ Len(rows[1][hscroll_pos + i]) = 98
           /\ Len(rows[2][hscroll_pos + i]) = 12
           /\ list_walker[3].cells[i].width = 100
           /\ list_walker[2].cells[i].text[96] = "."
           /\ list_walker[3].cells[i].text[13] = "x"
           /\ list_walker[3].cells[i].text[14] = " "
====
